---- MODULE Spec2Model ----
(***************************************************************************)
(* A model of dataweave's template-generation and file-merge code:         *)
(*   - DagsterManager (src/src/dagster/index.ts): generateAsset,           *)
(*     generateJob, generateSchedule and the __init__.py merger            *)
(*     updateInitFile;                                                     *)
(*   - DbtManager (src/unnamed/part_006): getModelDirectory,               *)
(*     addModelConfig, updateSchema and the hand-written YAML reader and   *)
(*     writer parseBasicYaml / generateBasicYaml.                          *)
(*   - the external commands of both managers (executeDbtCommand,          *)
(*     executeDagsterCommand), AIEngine and its providers                  *)
(*     (src/src/ai/index.ts), and the command line (src/unnamed/part_004). *)
(*                                                                         *)
(* Text is a sequence of tokens.  A token is one character, or a keyword   *)
(* of the file format that the names and values of the model cannot        *)
(* contain a part of ("from .", " import ", "__all__", "{{ config(", ...). *)
(* String operations (includes, split, trim, replace, the regular          *)
(* expressions) are computed on these sequences as JavaScript computes     *)
(* them on the characters.                                                 *)
(***************************************************************************)
EXTENDS Integers, Sequences, FiniteSets, TLC

VARIABLES
    dStart,     \* how the dagster tree looked before the first call (history)
    dfs,        \* dagster tree: path -> text of the file; DOMAIN = existing files
    ddirs,      \* dagster tree: the directories that exist
    dLast,      \* the last DagsterManager call (history)
    dPrev,      \* the call before it (history)
    dWrites,    \* the paths the last call handed to writeFile, in order
    dResult,    \* "ok" | "error": how the last call's promise settled
    regOrder,   \* per directory: symbols in order of first successful registration (history)
    dCalls      \* number of DagsterManager calls made so far

VARIABLES
    rName,      \* getModelDirectory: the model name given
    rDir        \* getModelDirectory: the directory returned ("unresolved" before the call)

VARIABLES
    cSrc,       \* addModelConfig: the caller-supplied SQL
    cIn,        \* the text the last application was given
    cOut,       \* the text the last application returned
    cOpts,      \* [m, tags] of the last application
    cPrevOpts,  \* [m, tags] of the application before it
    cN          \* number of applications so far

VARIABLES
    yDoc,       \* YAML round trip: the document written first
    yText1,     \* generateBasicYaml(yDoc)
    yDoc2,      \* parseBasicYaml(yText1)
    yText2,     \* generateBasicYaml(yDoc2)
    yStage      \* 0 nothing done, 1 written, 2 read back, 3 written again

VARIABLES
    mStart,     \* how staging/schema.yml looked before the first call (history)
    mfs,        \* dbt models tree: path -> text of the file
    mdirs,      \* dbt models tree: the directories that exist
    mLast,      \* the options of the last generateModel call (history)
    mWrites,    \* the paths the last call handed to writeFile, in order
    mReg,       \* per directory: model names in order of first generateModel (history)
    mCalls      \* number of generateModel calls so far

VARIABLES
    gCall,      \* generation under any input: the last call, [op, o] (history)
    gFault,     \* the paths on which readFile / writeFile rejected during it
    gResult,    \* "none" | "ok" | "error": how its promise settled
    gWrites,    \* the paths it handed to writeFile, in order
    gN          \* number of such calls so far

VARIABLES
    pOp,        \* external commands: the operation in progress or last run, [op, arg]
    pQueue,     \* the commands the operation still has to request after this one
    pCmd,       \* the command of the current request, [tool, args]
    pChild,     \* its child process: "none" | "running" | "errored" | "closed"
    pPromise,   \* the request's promise: "none" | "pending" | "resolved" | "rejected"
    pBy,        \* the event whose handler settled it: "none" | "close" | "error"
    pCode,      \* the exit code the settling close event carried (NoCode if none)
    pOpResult,  \* the operation's promise: "none" | "pending" | "resolved" | "rejected"
    pReqs,      \* executeDbtCommand / executeDagsterCommand calls made by the operation
    pSpawns,    \* spawn calls made by the operation
    pN          \* number of operations started

VARIABLES
    kKind,      \* two calls on one file: "index" (__init__.py) | "schema" (schema.yml)
    kExists,    \* whether the file exists
    kText,      \* its text
    kInv,       \* per call: [pc, item, seenExists, seen, wrote]; pc is "idle" before the
                \* call, "read" between its readFile and its writeFile, "done" after
    kLastWriter \* the call whose writeFile completed last (0 if none)

VARIABLES
    aProvider,  \* AIEngine: config.provider ("none" before construction)
    aEngine,    \* "none" | "built" | "threw": how the constructor ended
    aLast,      \* the last method call, [method, input, codeType] (history)
    aOutcome,   \* how its promise settled: [status, value, error]
    aN          \* number of method calls so far

VARIABLES
    lConfig,    \* command line: what .dataweave/config.json is in the working directory
    lfs,        \* the project's generated files: path -> text
    ldirs,      \* the project's directories that exist
    lCmd,       \* the last run, [name, arg] (history)
    lExit,      \* its exit code (NoCode before the first run)
    lError,     \* the error its handler printed ("" if none)
    lOps,       \* the manager and engine operations it called, in order
    lWrites,    \* the paths it handed to writeFile, in order
    lSpawns,    \* the child processes it spawned
    lCreated,   \* the models created by runs of dbt:model:new that succeeded (history)
    lN          \* number of runs so far

dvars == <<dStart, dfs, ddirs, dLast, dPrev, dWrites, dResult, regOrder, dCalls>>

rvars == <<rName, rDir>>

cvars == <<cSrc, cIn, cOut, cOpts, cPrevOpts, cN>>

yvars == <<yDoc, yText1, yDoc2, yText2, yStage>>

mvars == <<mStart, mfs, mdirs, mLast, mWrites, mReg, mCalls>>

gvars == <<gCall, gFault, gResult, gWrites, gN>>

avars == <<aProvider, aEngine, aLast, aOutcome, aN>>

kvars == <<kKind, kExists, kText, kInv, kLastWriter>>

pvars == <<pOp, pQueue, pCmd, pChild, pPromise, pBy, pCode, pOpResult, pReqs, pSpawns, pN>>

lvars == <<lConfig, lfs, ldirs, lCmd, lExit, lError, lOps, lWrites, lSpawns, lCreated, lN>>

vars == <<dvars, rvars, cvars, yvars, mvars, gvars, pvars, kvars, avars, lvars>>

(***************************************************************************)
(* String helpers (JavaScript String.prototype)                            *)
(***************************************************************************)

\* s.startsWith(p, i-1): p occurs in s at (1-based) position i
OccursAt(s, p, i) ==
    /\ i >= 1
    /\ i + Len(p) - 1 <= Len(s)
    /\ \A k \in 1..Len(p) : s[i + k - 1] = p[k]

StartsWith(s, p) == OccursAt(s, p, 1)

Includes(s, p) == \E i \in 1..(Len(s) + 1) : OccursAt(s, p, i)

\* number of (possibly overlapping) occurrences of p in s
CountOccurrences(s, p) == Cardinality({i \in 1..(Len(s) + 1) : OccursAt(s, p, i)})

WhiteSpace == {" ", "\n", "\t"}

RECURSIVE TrimStart(_)
TrimStart(s) ==
    IF s # <<>> /\ Head(s) \in WhiteSpace THEN TrimStart(Tail(s)) ELSE s

RECURSIVE TrimEnd(_)
TrimEnd(s) ==
    IF s # <<>> /\ s[Len(s)] \in WhiteSpace THEN TrimEnd(SubSeq(s, 1, Len(s) - 1)) ELSE s

Trim(s) == TrimEnd(TrimStart(s))

MinOf(S) == CHOOSE x \in S : \A y \in S : x <= y

\* s.split(sep) for a one-token separator: the pieces between the separators,
\* always at least one piece
Split(s, sep) ==
    LET at    == {i \in 1..Len(s) : s[i] = sep}
        \* position of the k-th separator; 0 and Len(s)+1 stand for the two ends
        cut(k) == IF k = 0 THEN 0
                  ELSE IF k > Cardinality(at) THEN Len(s) + 1
                  ELSE CHOOSE i \in at : Cardinality({j \in at : j < i}) = k - 1
    IN  [k \in 1..(Cardinality(at) + 1) |-> SubSeq(s, cut(k - 1) + 1, cut(k) - 1)]

\* pieces.join(sep) for a separator text
RECURSIVE Join(_, _)
Join(pieces, sep) ==
    IF pieces = <<>> THEN <<>>
    ELSE IF Len(pieces) = 1 THEN pieces[1]
    ELSE pieces[1] \o sep \o Join(Tail(pieces), sep)

SeqContains(seq, x) == \E i \in 1..Len(seq) : seq[i] = x

(***************************************************************************)
(* DagsterManager                                                          *)
(***************************************************************************)

\* symbol names offered to the manager (identifiers, as sequences of characters)
SymNames == {<<"a">>, <<"a", "b">>}

DagDirs == {"assets", "jobs", "schedules"}

InitPy == <<"__init__", ".py">>

InitPath(dir) == <<dir, InitPy>>

PyFile(dir, name) == <<dir, name \o <<".py">>>>

ScheduleSymbol(name) == name \o <<"_schedule">>

\* `from .${itemName} import ${itemName}`
ImportLine(itemName) == <<"from .">> \o itemName \o <<" import ">> \o itemName

Quotes == {"'", "\""}

\* index of the first token at or after i that is not white space (Len+1 if none)
RECURSIVE SkipWs(_, _)
SkipWs(s, i) ==
    IF i <= Len(s) /\ s[i] \in WhiteSpace THEN SkipWs(s, i + 1) ELSE i

\* index of the first `]` at or after i (0 if none)
FirstClose(s, i) ==
    LET at == {j \in i..Len(s) : s[j] = "]"} IN
    IF at = {} THEN 0 ELSE MinOf(at)

\* /__all__\s*=\s*\[(.*?)\]/s anchored at position i:
\* <<open, close>> = positions of `[` and of the first `]` after it, or <<0, 0>>
AllMatchAt(s, i) ==
    IF i > Len(s) \/ s[i] # "__all__" THEN <<0, 0>>
    ELSE LET e == SkipWs(s, i + 1) IN
         IF e > Len(s) \/ s[e] # "=" THEN <<0, 0>>
         ELSE LET o == SkipWs(s, e + 1) IN
              IF o > Len(s) \/ s[o] # "[" THEN <<0, 0>>
              ELSE LET c == FirstClose(s, o + 1) IN
                   IF c = 0 THEN <<0, 0>> ELSE <<o, c>>

\* content.match(/__all__\s*=\s*\[(.*?)\]/s): leftmost match,
\* [start, open, close], start = 0 when there is no match
AllMatch(s) ==
    LET at == {i \in 1..Len(s) : AllMatchAt(s, i)[1] # 0} IN
    IF at = {} THEN [start |-> 0, open |-> 0, close |-> 0]
    ELSE [start |-> MinOf(at), open |-> AllMatchAt(s, MinOf(at))[1],
          close |-> AllMatchAt(s, MinOf(at))[2]]

\* allMatch[1].split(',').map(item => item.trim().replace(/['"]/g, ''))
StripQuotes(item) == SelectSeq(item, LAMBDA ch : ch \notin Quotes)

ExistingItems(s, m) ==
    LET pieces == Split(SubSeq(s, m.open + 1, m.close - 1), ",")
    IN  [k \in 1..Len(pieces) |-> StripQuotes(Trim(pieces[k]))]

\* mutant: the new member is put in front of the existing ones
UpdatedItems_Prepend(existingItems, itemName) ==
    <<<<"\"">> \o itemName \o <<"\"">>>>
    \o SelectSeq(existingItems, LAMBDA it : it # <<>>)

\* [...existingItems.filter(item => item), `"${itemName}"`]
UpdatedItems(existingItems, itemName) ==
    Append(SelectSeq(existingItems, LAMBDA it : it # <<>>),
           <<"\"">> \o itemName \o <<"\"">>)

\* `__all__ = [${updatedItems.join(', ')}]`
AllLine(items) ==
    <<"__all__", " ", "=", " ", "[">> \o Join(items, <<",", " ">>) \o <<"]">>

\* mutant: the text read is dropped
AppendRegistration_DropOld(old, itemName) ==
    ImportLine(itemName)
    \o <<"\n", "\n">> \o AllLine(<<<<"\"">> \o itemName \o <<"\"">>>>) \o <<"\n">>

\* updateInitFile after its early return: append the import line, then put the
\* symbol into the __all__ list or create the list
AppendRegistration(old, itemName) ==
    LET c1 == old \o ImportLine(itemName) \o <<"\n">>
        m  == AllMatch(c1)
    IN  IF m.start # 0
        THEN LET existing == ExistingItems(c1, m) IN
             IF ~SeqContains(existing, itemName)
             THEN SubSeq(c1, 1, m.start - 1)
                  \o AllLine(UpdatedItems(existing, itemName))
                  \o SubSeq(c1, m.close + 1, Len(c1))
             ELSE c1
        ELSE c1 \o <<"\n">> \o AllLine(<<<<"\"">> \o itemName \o <<"\"">>>>) \o <<"\n">>

\* mutant: the `Already imported` early return is missing
UpdateInitContent_NoEarlyReturn(old, itemName) ==
    [written |-> TRUE, text |-> AppendRegistration(old, itemName)]

\* the text updateInitFile computes from the text it read;
\* written = FALSE when it returns early without writing
UpdateInitContent(old, itemName) ==
    IF Includes(old, ImportLine(itemName))
    THEN [written |-> FALSE, text |-> old]
    ELSE [written |-> TRUE, text |-> AppendRegistration(old, itemName)]

(***************************************************************************)
(* File system steps.  A world w is [fs, dirs, writes, ok]: the files, the *)
(* directories, the paths written so far by the running call, and whether  *)
(* the call is still running (FALSE once a step has thrown).               *)
(***************************************************************************)

\* a tree of files and directories during one call: `writes` are the paths handed
\* to writeFile so far, `ok` turns FALSE when an awaited step rejects; readFile
\* rejects on the paths in noRead and writeFile on the paths in noWrite
FaultyWorld(fs, dirs, noRead, noWrite) ==
    [fs |-> fs, dirs |-> dirs, writes |-> <<>>, ok |-> TRUE,
     noRead |-> noRead, noWrite |-> noWrite]

World(fs, dirs) == FaultyWorld(fs, dirs, {}, {})

ExistsSync(w, path) == path \in DOMAIN w.fs

PutFile(fs, path, text) ==
    [q \in (DOMAIN fs) \cup {path} |-> IF q = path THEN text ELSE fs[q]]

\* fs/promises writeFile: rejects (ENOENT) when the directory is missing
WriteFile(w, path, text) ==
    IF ~w.ok THEN w
    ELSE IF path[1] \notin w.dirs \/ path \in w.noWrite THEN [w EXCEPT !.ok = FALSE]
    ELSE [w EXCEPT !.fs = PutFile(w.fs, path, text), !.writes = Append(@, path)]

\* if (!existsSync(dir)) await mkdir(dir, { recursive: true })
EnsureDir(w, dir) ==
    IF ~w.ok THEN w ELSE [w EXCEPT !.dirs = @ \cup {dir}]

UpdateInitFile(w, dir, itemName) ==
    IF ~w.ok THEN w
    ELSE IF ExistsSync(w, InitPath(dir)) /\ InitPath(dir) \in w.noRead
    THEN [w EXCEPT !.ok = FALSE]
    ELSE LET old == IF ExistsSync(w, InitPath(dir)) THEN w.fs[InitPath(dir)] ELSE <<>>
             r   == UpdateInitContent(old, itemName)
         IN  IF r.written THEN WriteFile(w, InitPath(dir), r.text) ELSE w

\* the generated files' text, reduced to what identifies the template and its name
JobCode(name) == <<"from dagster import job, op", "\n", "@job", "\n", "def ">> \o name

ScheduleCode(name, isJob) ==
    <<"from dagster import schedule", "\n">>
    \o (IF isJob THEN <<"from ..jobs.">> ELSE <<"from ..assets.">>)
    \o name \o <<" import ">> \o name \o <<"\n", "@schedule", "\n", "def ">>
    \o ScheduleSymbol(name)

\* mutant: the schedule is registered in the index file of the jobs directory
GenerateSchedule_JobsIndex(w, name, isJob) ==
    LET w1 == EnsureDir(w, "schedules")
        w2 == WriteFile(w1, PyFile("schedules", ScheduleSymbol(name)), ScheduleCode(name, isJob))
    IN  UpdateInitFile(EnsureDir(w2, "jobs"), "jobs", ScheduleSymbol(name))

GenerateSchedule(w, name, isJob) ==
    LET w1 == EnsureDir(w, "schedules")
        w2 == WriteFile(w1, PyFile("schedules", ScheduleSymbol(name)), ScheduleCode(name, isJob))
    IN  UpdateInitFile(w2, "schedules", ScheduleSymbol(name))

\* DagsterAssetOptions; <<>> stands for an option that is absent (or empty)
NoAssetOptions ==
    [name |-> <<>>, description |-> <<>>, dependencies |-> <<>>, code |-> <<>>,
     partitions |-> <<>>, schedule |-> FALSE, tags |-> <<>>, compute_kind |-> <<>>,
     io_manager |-> <<>>]

Quoted(s) == <<"\"">> \o s \o <<"\"">>

InsOption(dependencies) ==
    <<"ins={">>
    \o Join([k \in 1..Len(dependencies) |-> Quoted(dependencies[k]) \o <<": AssetIn()">>],
            <<", ">>)
    \o <<"}">>

TagsOption(tags) ==
    <<"tags={">> \o Join([k \in 1..Len(tags) |-> Quoted(tags[k])], <<", ">>) \o <<"}">>

\* decoratorOptions, in the order they are pushed
DecoratorOptions(o) ==
    (IF Len(o.dependencies) > 0 THEN <<InsOption(o.dependencies)>> ELSE <<>>)
    \o (IF o.description # <<>> THEN <<<<"description=">> \o Quoted(o.description)>> ELSE <<>>)
    \o (IF Len(o.tags) > 0 THEN <<TagsOption(o.tags)>> ELSE <<>>)
    \o (IF o.compute_kind # <<>>
        THEN <<<<"compute_kind=">> \o Quoted(o.compute_kind)>> ELSE <<>>)
    \o (IF o.io_manager # <<>>
        THEN <<<<"io_manager_key=">> \o Quoted(o.io_manager)>> ELSE <<>>)
    \o (IF o.partitions # <<>>
        THEN <<<<"partitions_def=DailyPartitionsDefinition(start_date=">>
               \o Quoted(o.partitions) \o <<")">>>> ELSE <<>>)

AssetDecorator(o) ==
    IF Len(DecoratorOptions(o)) > 0
    THEN <<"@asset(">> \o Join(DecoratorOptions(o), <<", ">>) \o <<")">>
    ELSE <<"@asset">>

\* the text of the template: its imports, its decorator and the function it defines
\* (`import pandas`, the docstring and the body are left out)
generateDefaultAssetCode(o) ==
    <<"from dagster import asset", "\n">>
    \o (IF o.partitions # <<>>
        THEN <<"from dagster import DailyPartitionsDefinition", "\n">> ELSE <<>>)
    \o (IF Len(o.dependencies) > 0 THEN <<"from dagster import AssetIn", "\n">> ELSE <<>>)
    \o AssetDecorator(o) \o <<"\n", "def ">> \o o.name

\* mutant: the index file is updated before the asset file is written
generateAsset_IndexFirst(w, o) ==
    LET w1        == EnsureDir(w, "assets")
        assetCode == IF o.code # <<>> THEN o.code ELSE generateDefaultAssetCode(o)
        w2        == UpdateInitFile(w1, "assets", o.name)
        w3        == WriteFile(w2, PyFile("assets", o.name), assetCode)
    IN  IF o.schedule THEN GenerateSchedule(w3, o.name, FALSE) ELSE w3

\* options: a record shaped as NoAssetOptions
generateAsset(w, o) ==
    LET w1        == EnsureDir(w, "assets")
        assetCode == IF o.code # <<>> THEN o.code ELSE generateDefaultAssetCode(o)
        w2        == WriteFile(w1, PyFile("assets", o.name), assetCode)
        w3        == UpdateInitFile(w2, "assets", o.name)
    IN  IF o.schedule THEN GenerateSchedule(w3, o.name, FALSE) ELSE w3

GenerateAssetWorld(w, name, schedule) ==
    generateAsset(w, [NoAssetOptions EXCEPT !.name = name, !.schedule = schedule])

GenerateJobWorld(w, name, schedule) ==
    LET w1 == EnsureDir(w, "jobs")
        w2 == WriteFile(w1, PyFile("jobs", name), JobCode(name))
        w3 == UpdateInitFile(w2, "jobs", name)
    IN  IF schedule THEN GenerateSchedule(w3, name, TRUE) ELSE w3

(***************************************************************************)
(* History: the order in which symbols were first registered in each       *)
(* directory by calls that completed.                                      *)
(***************************************************************************)

RegAdd(reg, dir, item) ==
    IF SeqContains(reg[dir], item) THEN reg
    ELSE [reg EXCEPT ![dir] = Append(@, item)]

NoCall == [op |-> "none", dir |-> "", name |-> <<>>, schedule |-> FALSE]

\* calls explored per behaviour
MaxCalls == 3

Settle(w, call, reg) ==
    /\ dCalls < MaxCalls
    /\ dCalls' = dCalls + 1
    /\ dfs' = w.fs
    /\ ddirs' = w.dirs
    /\ dWrites' = w.writes
    /\ dResult' = IF w.ok THEN "ok" ELSE "error"
    /\ dPrev' = dLast
    /\ dLast' = call
    /\ regOrder' = IF w.ok THEN reg ELSE regOrder
    /\ UNCHANGED <<dStart, rvars, cvars, yvars, mvars, gvars, pvars, kvars, avars, lvars>>

\* manager.updateInitFile(initPath, itemName, itemType), as the tests call it
CallUpdateInitFile ==
    \E dir \in DagDirs, item \in SymNames :
        Settle(UpdateInitFile(World(dfs, ddirs), dir, item),
               [op |-> "updateInitFile", dir |-> dir, name |-> item, schedule |-> FALSE],
               RegAdd(regOrder, dir, item))

CallGenerateAsset ==
    \E name \in SymNames, schedule \in BOOLEAN :
        Settle(GenerateAssetWorld(World(dfs, ddirs), name, schedule),
               [op |-> "generateAsset", dir |-> "assets", name |-> name, schedule |-> schedule],
               IF schedule
               THEN RegAdd(RegAdd(regOrder, "assets", name), "schedules", ScheduleSymbol(name))
               ELSE RegAdd(regOrder, "assets", name))

CallGenerateJob ==
    \E name \in SymNames, schedule \in BOOLEAN :
        Settle(GenerateJobWorld(World(dfs, ddirs), name, schedule),
               [op |-> "generateJob", dir |-> "jobs", name |-> name, schedule |-> schedule],
               IF schedule
               THEN RegAdd(RegAdd(regOrder, "jobs", name), "schedules", ScheduleSymbol(name))
               ELSE RegAdd(regOrder, "jobs", name))

\* index files found in the project before the first call
HandWrittenNoAll == <<"import os", "\n">>

HandWrittenSingleQuoted == <<"__all__", " ", "=", " ", "[", "'", "a", "'", "]", "\n">>

\* an import of `a` written by hand, with no __all__ list
HandWrittenImportOnly == ImportLine(<<"a">>) \o <<"\n">>

\* an __all__ written by hand as a tuple
HandWrittenTuple == <<"__all__", " ", "=", " ", "(", "\"", "c", "\"", ",", ")", "\n">>

StartKinds ==
    {"nodirs", "absent", "empty", "noall", "singlequoted", "importonly", "tuple"}

StartText(kind) ==
    IF kind = "empty" THEN <<>>
    ELSE IF kind = "noall" THEN HandWrittenNoAll
    ELSE IF kind = "importonly" THEN HandWrittenImportOnly
    ELSE IF kind = "tuple" THEN HandWrittenTuple
    ELSE HandWrittenSingleQuoted

InitDagsterAt(kind) ==
    /\ dStart = kind
    /\ ddirs = IF kind = "nodirs" THEN {} ELSE DagDirs
    /\ dfs = IF kind \in {"nodirs", "absent"} THEN <<>>
             ELSE [p \in {InitPath(d) : d \in DagDirs} |-> StartText(kind)]
    /\ dLast = NoCall
    /\ dPrev = NoCall
    /\ dWrites = <<>>
    /\ dResult = "ok"
    /\ regOrder = [d \in DagDirs |-> <<>>]
    /\ dCalls = 0


(***************************************************************************)
(* DbtManager.getModelDirectory                                            *)
(***************************************************************************)

StgPrefix == <<"s", "t", "g", "_">>

IntPrefix == <<"i", "n", "t", "_">>

FctPrefix == <<"f", "c", "t", "_">>

DimPrefix == <<"d", "i", "m", "_">>

\* mutant: the fallback is marts instead of staging
getModelDirectory_DefaultMarts(modelName) ==
    IF StartsWith(modelName, StgPrefix) THEN "staging"
    ELSE IF StartsWith(modelName, IntPrefix) THEN "intermediate"
    ELSE "marts"

getModelDirectory(modelName) ==
    IF StartsWith(modelName, StgPrefix) THEN "staging"
    ELSE IF StartsWith(modelName, IntPrefix) THEN "intermediate"
    ELSE IF StartsWith(modelName, FctPrefix) \/ StartsWith(modelName, DimPrefix) THEN "marts"
    ELSE "staging"

\* model names given to the resolver: a head, then a tail
NameHeads ==
    {<<>>, StgPrefix, IntPrefix, FctPrefix, DimPrefix,
     <<"s", "t", "g">>, <<"i", "n", "t">>, <<"f", "c", "t">>, <<"d", "i", "m">>,
     <<"S", "T", "G", "_">>, <<"_", "s", "t", "g", "_">>, <<"s", "t", "_", "g", "_">>,
     <<"o", "t", "h", "e", "r", "_">>, <<"d", "i", "m", "s", "_">>, <<" ", "i", "n", "t", "_">>}

NameTails == {<<>>, <<"x">>, <<"_">>, <<"s", "t", "g", "_">>, <<"f", "c", "t", "_", "x">>}

ModelNameInputs == {h \o t : h \in NameHeads, t \in NameTails}

InitResolver ==
    /\ rName \in ModelNameInputs
    /\ rDir = "unresolved"

IdleResolver ==
    /\ rName = <<>>
    /\ rDir = "unresolved"

ResolveDirectory ==
    /\ rDir = "unresolved"
    /\ rDir' = getModelDirectory(rName)
    /\ UNCHANGED <<rName, dvars, cvars, yvars, mvars, gvars, pvars, kvars, avars, lvars>>

(***************************************************************************)
(* DbtManager.addModelConfig                                               *)
(***************************************************************************)

ConfigOpen == "{{ config("

ConfigClose == ") }}"

\* the tokens that hold a `}` character
BraceTokens == {"}", ConfigClose, ")}}", "}}"}

\* `{{ config(${configOptions.join(', ')}) }}`
ConfigLine(m, tags) ==
    <<ConfigOpen, "materialized='", m, "'">>
    \o (IF Len(tags) > 0
        THEN <<", ", "tags=['">> \o Join(tags, <<"', '">>) \o <<"']">>
        ELSE <<>>)
    \o <<ConfigClose>>

\* index of the first token at or after i that holds a `}` (0 if none)
FirstBrace(s, i) ==
    LET at == {j \in i..Len(s) : s[j] \in BraceTokens} IN
    IF at = {} THEN 0 ELSE MinOf(at)

\* /\{\{ config\([^}]+\) \}\}/ anchored at i: the position of the closing `) }}`, or 0.
\* [^}]+ takes at least one character and cannot pass a `}`, so the match ends at
\* the first `}` after the opening and only if that `}` belongs to a `) }}`.
ConfigMatchAt(s, i) ==
    IF i > Len(s) \/ s[i] # ConfigOpen THEN 0
    ELSE LET j == FirstBrace(s, i + 1) IN
         IF j # 0 /\ s[j] = ConfigClose /\ j > i + 1 THEN j ELSE 0

\* leftmost match of the header pattern: [start, end], start = 0 when none
ConfigMatch(s) ==
    LET at == {i \in 1..Len(s) : ConfigMatchAt(s, i) # 0} IN
    IF at = {} THEN [start |-> 0, end |-> 0]
    ELSE [start |-> MinOf(at), end |-> ConfigMatchAt(s, MinOf(at))]

\* mutant: an existing header is kept as it is
ReplaceConfig_Keep(sql, configLine) == sql

\* sql.replace(/\{\{ config\([^}]+\) \}\}/, configLine): the first match only
ReplaceConfig(sql, configLine) ==
    LET m == ConfigMatch(sql) IN
    IF m.start = 0 THEN sql
    ELSE SubSeq(sql, 1, m.start - 1) \o configLine \o SubSeq(sql, m.end + 1, Len(sql))

\* line.trim() && !line.trim().startsWith('--')
IsSubstantive(line) == Trim(line) # <<>> /\ ~StartsWith(Trim(line), <<"-", "-">>)

\* mutant: comment lines are not skipped
FirstNonCommentLine_BlankOnly(lines) ==
    IF \E k \in 1..Len(lines) : Trim(lines[k]) # <<>>
    THEN CHOOSE k \in 1..Len(lines) :
            /\ Trim(lines[k]) # <<>>
            /\ \A j \in 1..(k - 1) : Trim(lines[j]) = <<>>
    ELSE 0

\* lines.findIndex(...) + 1 (0 when findIndex returns -1)
FirstNonCommentLine(lines) ==
    IF \E k \in 1..Len(lines) : IsSubstantive(lines[k])
    THEN CHOOSE k \in 1..Len(lines) :
            /\ IsSubstantive(lines[k])
            /\ \A j \in 1..(k - 1) : ~IsSubstantive(lines[j])
    ELSE 0

addModelConfig(sql, materializedAs, tags) ==
    LET configLine == ConfigLine(materializedAs, tags) IN
    IF Includes(sql, <<ConfigOpen>>)
    THEN ReplaceConfig(sql, configLine)
    ELSE LET lines == Split(sql, "\n")
             first == FirstNonCommentLine(lines)
         IN  IF first = 0
             THEN configLine \o <<"\n", "\n">> \o sql
             ELSE Join(SubSeq(lines, 1, first - 1) \o <<configLine, <<>>>>
                       \o SubSeq(lines, first, Len(lines)), <<"\n">>)

\* lines a caller's SQL is made of
SqlLines ==
    {<<>>, <<" ">>, <<"-", "-", " note">>, <<" ", "-", "-", "note">>, <<"-", "x">>,
     <<"select 1">>,
     <<ConfigOpen, "materialized='", "table", "'", ConfigClose>>,
     <<ConfigOpen, ConfigClose>>,
     <<ConfigOpen, "materialized='", "table", "'", ", meta={'k': 1", "}", ConfigClose>>,
     <<"from {{ ref('t'", ConfigClose>>,
     <<"-", "-", " see ", ConfigOpen>>}

\* longest caller-supplied SQL, in lines
MaxSqlLines == 3

SqlInputs ==
    UNION {{Join(ls, <<"\n">>) : ls \in [1..n -> SqlLines]} : n \in 1..MaxSqlLines}

Materializations == {"view", "table"}

TagLists == {<<>>, <<<<"t1">>, <<"t2">>>>}

NoOpts == [m |-> "", tags |-> <<>>]

\* applications of addModelConfig explored per behaviour
MaxApply == 2

InitConfig ==
    /\ cSrc \in SqlInputs
    /\ cIn = <<>>
    /\ cOut = cSrc
    /\ cOpts = NoOpts
    /\ cPrevOpts = NoOpts
    /\ cN = 0

IdleConfig ==
    /\ cSrc = <<>>
    /\ cIn = <<>>
    /\ cOut = <<>>
    /\ cOpts = NoOpts
    /\ cPrevOpts = NoOpts
    /\ cN = 0

\* apply addModelConfig to the caller's SQL, then to what it returned
ApplyConfig ==
    \E m \in Materializations, tags \in TagLists :
        /\ cN < MaxApply
        /\ cN' = cN + 1
        /\ cIn' = cOut
        /\ cOut' = addModelConfig(cOut, m, tags)
        /\ cPrevOpts' = cOpts
        /\ cOpts' = [m |-> m, tags |-> tags]
        /\ UNCHANGED <<cSrc, dvars, rvars, yvars, mvars, gvars, pvars, kvars, avars, lvars>>

(***************************************************************************)
(* DbtManager.parseBasicYaml / generateBasicYaml                           *)
(*                                                                         *)
(* A document is a sequence of model records [name, description, tests,    *)
(* columns]; a column record is [name, description, tests].  An absent or  *)
(* empty field (undefined, '' or []) is <<>>: the code treats them alike.  *)
(***************************************************************************)

\* n levels of two-space indentation
Indent(n) == [k \in 1..n |-> "  "]

YamlWhiteSpace == WhiteSpace \cup {"  "}

RECURSIVE YamlTrimStart(_)
YamlTrimStart(s) ==
    IF s # <<>> /\ Head(s) \in YamlWhiteSpace THEN YamlTrimStart(Tail(s)) ELSE s

RECURSIVE YamlTrimEnd(_)
YamlTrimEnd(s) ==
    IF s # <<>> /\ s[Len(s)] \in YamlWhiteSpace
    THEN YamlTrimEnd(SubSeq(s, 1, Len(s) - 1)) ELSE s

\* line.trim() on a line of the schema file
YamlTrim(s) == YamlTrimEnd(YamlTrimStart(s))

\* yaml += `...\n` for each element of a list of tests
RECURSIVE TestLines(_, _)
TestLines(tests, depth) ==
    IF tests = <<>> THEN <<>>
    ELSE Indent(depth) \o <<"- ">> \o Head(tests) \o <<"\n">> \o TestLines(Tail(tests), depth)

ColumnYaml(column) ==
    Indent(3) \o <<"- name", ":", " ">> \o column.name \o <<"\n">>
    \o (IF column.description # <<>>
        THEN Indent(4) \o <<"description", ":", " ">> \o column.description \o <<"\n">>
        ELSE <<>>)
    \o (IF Len(column.tests) > 0
        THEN Indent(4) \o <<"tests", ":", "\n">> \o TestLines(column.tests, 5)
        ELSE <<>>)

RECURSIVE ColumnsYaml(_)
ColumnsYaml(columns) ==
    IF columns = <<>> THEN <<>>
    ELSE ColumnYaml(Head(columns)) \o ColumnsYaml(Tail(columns))

ModelYaml(model) ==
    Indent(1) \o <<"- name", ":", " ">> \o model.name \o <<"\n">>
    \o (IF model.description # <<>>
        THEN Indent(2) \o <<"description", ":", " ">> \o model.description \o <<"\n">>
        ELSE <<>>)
    \o (IF Len(model.tests) > 0
        THEN Indent(2) \o <<"tests", ":", "\n">> \o TestLines(model.tests, 3)
        ELSE <<>>)
    \o (IF Len(model.columns) > 0
        THEN Indent(2) \o <<"columns", ":", "\n">> \o ColumnsYaml(model.columns)
        ELSE <<>>)
    \o <<"\n">>

RECURSIVE ModelsYaml(_)
ModelsYaml(models) ==
    IF models = <<>> THEN <<>>
    ELSE ModelYaml(Head(models)) \o ModelsYaml(Tail(models))

\* data.version is 2 in every document the code builds
generateBasicYaml(models) ==
    <<"version", ":", " ", "2", "\n", "\n", "models", ":", "\n">> \o ModelsYaml(models)

NewModel(name) == [name |-> name, description |-> <<>>, tests |-> <<>>, columns |-> <<>>]

NewColumn(name) == [name |-> name, description |-> <<>>, tests |-> <<>>]

\* the reader's state before the first line
ParseStart ==
    [models |-> <<>>, hasModel |-> FALSE, currentModel |-> NewModel(<<>>),
     currentColumns |-> <<>>, inColumns |-> FALSE]

\* if (currentColumns.length > 0) currentModel.columns = currentColumns;
\* result.models.push(currentModel)
PushCurrent(st) ==
    IF st.hasModel
    THEN Append(st.models,
                IF Len(st.currentColumns) > 0
                THEN [st.currentModel EXCEPT !.columns = st.currentColumns]
                ELSE st.currentModel)
    ELSE st.models

\* trimmed.split(':')[1].trim()
NameOf(trimmed) == YamlTrim(Split(trimmed, ":")[2])

\* trimmed.split(':').slice(1).join(':').trim()
DescriptionOf(trimmed) == YamlTrim(Join(Tail(Split(trimmed, ":")), <<":">>))

\* one iteration of the reader's loop
ParseLine(st, line) ==
    LET trimmed == YamlTrim(line) IN
    IF StartsWith(trimmed, <<"- name", ":">>) /\ ~st.inColumns
    THEN [models |-> PushCurrent(st), hasModel |-> TRUE,
          currentModel |-> NewModel(NameOf(trimmed)),
          currentColumns |-> <<>>, inColumns |-> FALSE]
    ELSE IF StartsWith(trimmed, <<"description", ":">>) /\ st.hasModel
    THEN [st EXCEPT !.currentModel.description = DescriptionOf(trimmed)]
    ELSE IF trimmed = <<"columns", ":">>
    THEN [st EXCEPT !.inColumns = TRUE]
    ELSE IF StartsWith(trimmed, <<"- name", ":">>) /\ st.inColumns
    THEN [st EXCEPT !.currentColumns = Append(@, NewColumn(NameOf(trimmed)))]
    ELSE st

\* the reader's state after the first k lines
RECURSIVE ParseLines(_, _)
ParseLines(lines, k) ==
    IF k = 0 THEN ParseStart
    ELSE ParseLine(ParseLines(lines, k - 1), lines[k])

\* the models of the document the reader builds from the text of a schema file
parseBasicYaml(content) ==
    LET lines == Split(content, "\n") IN PushCurrent(ParseLines(lines, Len(lines)))

(***************************************************************************)
(* Round trip of a document through the writer and the reader              *)
(***************************************************************************)

StgA == <<"s", "t", "g", "_", "a">>

StgB == <<"s", "t", "g", "_", "b">>

IntA == <<"i", "n", "t", "_", "a">>

ColumnInputs ==
    {[name |-> <<"id">>, description |-> <<>>, tests |-> <<>>],
     [name |-> <<"id">>, description |-> <<"primary key">>, tests |-> <<<<"not_null">>>>]}

ColumnListInputs ==
    {<<>>} \cup {<<c>> : c \in ColumnInputs}

DescriptionInputs == {<<>>, <<"first">>, <<"key", ":", " ", "value">>}

TestListInputs == {<<>>, <<<<"unique">>>>}

ModelRecordInputs ==
    [name : {StgA, StgB}, description : DescriptionInputs,
     tests : TestListInputs, columns : ColumnListInputs]

\* most model records in a document
MaxModels == 2

DocumentInputs ==
    {doc \in UNION {[1..n -> ModelRecordInputs] : n \in 0..MaxModels} :
        \A i, j \in 1..Len(doc) : doc[i].name = doc[j].name => i = j}

InitYaml ==
    /\ yDoc \in DocumentInputs
    /\ yText1 = <<>>
    /\ yDoc2 = <<>>
    /\ yText2 = <<>>
    /\ yStage = 0

IdleYaml ==
    /\ yDoc = <<>>
    /\ yText1 = <<>>
    /\ yDoc2 = <<>>
    /\ yText2 = <<>>
    /\ yStage = 0

WriteDocument ==
    /\ yStage = 0
    /\ yText1' = generateBasicYaml(yDoc)
    /\ yStage' = 1
    /\ UNCHANGED <<yDoc, yDoc2, yText2, dvars, rvars, cvars, mvars, gvars, pvars, kvars, avars, lvars>>

ReadBack ==
    /\ yStage = 1
    /\ yDoc2' = parseBasicYaml(yText1)
    /\ yStage' = 2
    /\ UNCHANGED <<yDoc, yText1, yText2, dvars, rvars, cvars, mvars, gvars, pvars, kvars, avars, lvars>>

WriteAgain ==
    /\ yStage = 2
    /\ yText2' = generateBasicYaml(yDoc2)
    /\ yStage' = 3
    /\ UNCHANGED <<yDoc, yText1, yDoc2, dvars, rvars, cvars, mvars, gvars, pvars, kvars, avars, lvars>>

(***************************************************************************)
(* DbtManager.generateModel / updateSchema                                 *)
(***************************************************************************)

SchemaYml == <<"schema", ".yml">>

SchemaPath(modelDir) == <<modelDir, SchemaYml>>

SqlPath(modelDir, name) == <<modelDir, name \o <<".sql">>>>

ModelDirs == {"staging", "intermediate", "marts"}

generateDefaultSql(modelName) ==
    <<"-", "-", " Generated model: ">> \o modelName
    \o <<"\n", "-", "-", " TODO: Replace this with your actual SQL logic", "\n", "\n">>
    \o ConfigLine("view", <<>>)
    \o <<"\n", "\n", "select", "\n", "    1 as id,", "\n", "    'sample' as name,", "\n",
         "    current_timestamp as created_at", "\n", "\n",
         "-", "-", " TODO: Add your transformations here", "\n",
         "-", "-", " Uncomment and modify the following example:", "\n",
         "-", "-", " from {{ ref('source_table'", ConfigClose, "\n",
         "-", "-", " where condition = 'value'", "\n">>

\* index of the first model with the name (0 if none): schemaData.models.find
RECURSIVE FindModel(_, _, _)
FindModel(models, name, i) ==
    IF i > Len(models) THEN 0
    ELSE IF models[i].name = name THEN i
    ELSE FindModel(models, name, i + 1)

\* columns.map(col => ({ name, description, tests: col.tests || [] }))
MapColumns(columns) ==
    [k \in 1..Len(columns) |->
        [name |-> columns[k].name, description |-> columns[k].description,
         tests |-> columns[k].tests]]

\* mutant: a model that is not found is not added
UpsertModel_NoAppend(models, modelName, description, columns, tests) == models

\* the models updateSchema writes, from the models it read
UpsertModel(models, modelName, description, columns, tests) ==
    LET found  == FindModel(models, modelName, 1)
        all    == IF found = 0 THEN Append(models, NewModel(modelName)) ELSE models
        at     == IF found = 0 THEN Len(all) ELSE found
        e1     == IF description # <<>>
                  THEN [all[at] EXCEPT !.description = description] ELSE all[at]
        e2     == IF Len(tests) > 0 THEN [e1 EXCEPT !.tests = tests] ELSE e1
        e3     == IF Len(columns) > 0 THEN [e2 EXCEPT !.columns = MapColumns(columns)] ELSE e2
    IN  [all EXCEPT ![at] = e3]

updateSchema(w, modelDir, modelName, description, columns, tests) ==
    IF ~w.ok THEN w
    ELSE LET schemaData == IF /\ ExistsSync(w, SchemaPath(modelDir))
                              /\ SchemaPath(modelDir) \notin w.noRead
                           THEN parseBasicYaml(w.fs[SchemaPath(modelDir)])
                           ELSE <<>>
         IN  WriteFile(w, SchemaPath(modelDir),
                       generateBasicYaml(UpsertModel(schemaData, modelName, description,
                                                     columns, tests)))

\* options: [name, sql, description, materializedAs, columns, tests, tags];
\* sql = <<>> stands for an absent (or empty) sql option
generateModel(w, options) ==
    LET modelDir      == getModelDirectory(options.name)
        w1            == EnsureDir(w, modelDir)
        sqlContent    == IF options.sql # <<>> THEN options.sql
                         ELSE generateDefaultSql(options.name)
        sqlWithConfig == addModelConfig(sqlContent, options.materializedAs, options.tags)
        w2            == WriteFile(w1, SqlPath(modelDir, options.name), sqlWithConfig)
    IN  updateSchema(w2, modelDir, options.name, options.description,
                     options.columns, options.tests)

DbtNames == {StgA, StgB, IntA}

\* views with and without description, columns and tests; tables with none of them
ModelOptionInputs ==
    [name : DbtNames, sql : {<<>>}, description : {<<>>, <<"first">>},
     materializedAs : {"view"}, columns : {<<>>, <<[name |-> <<"id">>,
     description |-> <<"primary key">>, tests |-> <<<<"not_null">>>>]>>},
     tests : TestListInputs, tags : {<<>>}]
    \cup [name : DbtNames, sql : {<<>>}, description : {<<>>},
          materializedAs : {"table"}, columns : {<<>>}, tests : {<<>>}, tags : {<<>>}]

NoOptions ==
    [name |-> <<>>, sql |-> <<>>, description |-> <<>>, materializedAs |-> "",
     columns |-> <<>>, tests |-> <<>>, tags |-> <<>>]

\* generateModel calls explored per behaviour
MaxModelCalls == 3

InitModels ==
    /\ mStart = "absent"
    /\ mfs = <<>>
    /\ mdirs = {}
    /\ mLast = NoOptions
    /\ mWrites = <<>>
    /\ mReg = [d \in ModelDirs |-> <<>>]
    /\ mCalls = 0

IdleModels == InitModels

CallGenerateModel ==
    \E options \in ModelOptionInputs :
        LET w == generateModel(World(mfs, mdirs), options)
            d == getModelDirectory(options.name)
        IN  /\ mCalls < MaxModelCalls
            /\ mCalls' = mCalls + 1
            /\ mfs' = w.fs
            /\ mdirs' = w.dirs
            /\ mWrites' = w.writes
            /\ mLast' = options
            /\ mReg' = IF w.ok /\ ~SeqContains(mReg[d], options.name)
                       THEN [mReg EXCEPT ![d] = Append(@, options.name)]
                       ELSE mReg
            /\ UNCHANGED <<mStart, dvars, rvars, cvars, yvars, gvars, pvars, kvars, avars, lvars>>

(***************************************************************************)
(* The generators under any input: names that may be empty, caller's code, *)
(* and files the operating system refuses to read or to write              *)
(***************************************************************************)

\* generateJob, with the name and the schedule of its options
generateJob(w, o) == GenerateJobWorld(w, o.name, o.schedule)

AssetNameInputs == {<<>>, <<"a">>}

CustomCode == <<"from dagster import asset", "\n", "@asset", "\n", "def custom">>

\* the annotation options of an asset: none given, or all four given
AnnotationInputs ==
    {[dependencies |-> <<>>, tags |-> <<>>, compute_kind |-> <<>>, io_manager |-> <<>>],
     [dependencies |-> <<<<"u">>>>, tags |-> <<<<"t1">>>>, compute_kind |-> <<"pandas">>,
      io_manager |-> <<"warehouse">>]}

AssetOptionInputs ==
    {[NoAssetOptions EXCEPT !.name = n, !.code = c, !.schedule = sch,
         !.dependencies = a.dependencies, !.tags = a.tags,
         !.compute_kind = a.compute_kind, !.io_manager = a.io_manager] :
        n \in AssetNameInputs, c \in {<<>>, CustomCode}, sch \in BOOLEAN,
        a \in AnnotationInputs}

JobOptionInputs == [name : AssetNameInputs, schedule : BOOLEAN]

AnyModelOptionInputs ==
    [name : {<<>>, StgA}, sql : {<<>>}, description : {<<>>},
     materializedAs : {"view"}, columns : {<<>>}, tests : TestListInputs, tags : {<<>>}]

IndexPaths == {InitPath(d) : d \in DagDirs}

SchemaPaths == {SchemaPath(d) : d \in ModelDirs}

NoFault == [noRead |-> {}, noWrite |-> {}]

\* the refusals explored: none, every index file (schema file) unwritable, or unreadable
DagsterFaults ==
    {NoFault, [noRead |-> {}, noWrite |-> IndexPaths], [noRead |-> IndexPaths, noWrite |-> {}]}

ModelFaults ==
    {NoFault, [noRead |-> {}, noWrite |-> SchemaPaths],
     [noRead |-> SchemaPaths, noWrite |-> {}]}

\* calls explored per behaviour
MaxArtifactCalls == 2

InitArtifacts ==
    /\ gCall = [op |-> "none", o |-> [name |-> <<>>]]
    /\ gFault = NoFault
    /\ gResult = "none"
    /\ gWrites = <<>>
    /\ gN = 0

IdleArtifacts == InitArtifacts

SettleArtifact(w, op, o, f) ==
    /\ gN < MaxArtifactCalls
    /\ gN' = gN + 1
    /\ gCall' = [op |-> op, o |-> o]
    /\ gFault' = f
    /\ gResult' = IF w.ok THEN "ok" ELSE "error"
    /\ gWrites' = w.writes

GenerateAssetAny ==
    \E o \in AssetOptionInputs, f \in DagsterFaults :
        LET w == generateAsset(FaultyWorld(dfs, ddirs, f.noRead, f.noWrite), o) IN
        /\ SettleArtifact(w, "generateAsset", o, f)
        /\ dfs' = w.fs
        /\ ddirs' = w.dirs
        /\ UNCHANGED <<dStart, dLast, dPrev, dWrites, dResult, regOrder, dCalls>>
        /\ UNCHANGED <<rvars, cvars, yvars, mvars, pvars, kvars, avars, lvars>>

GenerateJobAny ==
    \E o \in JobOptionInputs, f \in DagsterFaults :
        LET w == generateJob(FaultyWorld(dfs, ddirs, f.noRead, f.noWrite), o) IN
        /\ SettleArtifact(w, "generateJob", o, f)
        /\ dfs' = w.fs
        /\ ddirs' = w.dirs
        /\ UNCHANGED <<dStart, dLast, dPrev, dWrites, dResult, regOrder, dCalls>>
        /\ UNCHANGED <<rvars, cvars, yvars, mvars, pvars, kvars, avars, lvars>>

GenerateModelAny ==
    \E o \in AnyModelOptionInputs, f \in ModelFaults :
        LET w == generateModel(FaultyWorld(mfs, mdirs, f.noRead, f.noWrite), o) IN
        /\ SettleArtifact(w, "generateModel", o, f)
        /\ mfs' = w.fs
        /\ mdirs' = w.dirs
        /\ UNCHANGED <<mStart, mLast, mWrites, mReg, mCalls>>
        /\ UNCHANGED <<dvars, rvars, cvars, yvars, pvars, kvars, avars, lvars>>

\* schema.yml as generateModel may find it in staging/: absent, or left there by hand
\* or by another tool, or written by an earlier run
SchemaStartKinds == {"absent", "empty", "notes", "orphan", "json", "valid"}

SchemaStartText(kind) ==
    CASE kind = "empty"  -> <<>>
      [] kind = "notes"  -> <<"# hand-written notes", "\n", "key", ":", " ", "value", "\n">>
      [] kind = "orphan" -> <<"documented", ":", " ", "yes", "\n", "  ", "columns", "\n">>
      [] kind = "json"   -> <<"{", "\"models\"", ":", " ", "[", "]", "}">>
      [] kind = "valid"  ->
            generateBasicYaml(<<[NewModel(StgB) EXCEPT !.description = <<"first">>]>>)

InitSchemaFilesAt(kind) ==
    /\ mStart = kind
    /\ mfs = IF kind = "absent" THEN <<>>
             ELSE [path \in {SchemaPath("staging")} |-> SchemaStartText(kind)]
    /\ mdirs = IF kind = "absent" THEN {} ELSE {"staging"}
    /\ mLast = NoOptions
    /\ mWrites = <<>>
    /\ mReg = [d \in ModelDirs |-> <<>>]
    /\ mCalls = 0

InitSchemaFiles == \E kind \in SchemaStartKinds : InitSchemaFilesAt(kind)

(***************************************************************************)
(* executeDbtCommand / executeDagsterCommand and the operations built on   *)
(* them                                                                    *)
(***************************************************************************)

Select(flag, arg) == IF arg = "" THEN <<>> ELSE <<flag, arg>>

\* mutant: `docs serve` is requested at once, `docs generate` is left out
CommandsOf_ServeOnly(op, arg) ==
    <<[tool |-> "dbt", args |-> <<"docs", "serve", "--port", "8001">>]>>

\* the commands an operation requests, in order; arg = "" is an absent model name
CommandsOf(op, arg) ==
    CASE op = "runModel"     -> <<[tool |-> "dbt", args |-> <<"run">> \o Select("--select", arg)]>>
      [] op = "testModel"    -> <<[tool |-> "dbt", args |-> <<"test">> \o Select("--select", arg)]>>
      [] op = "compileModel" ->
            <<[tool |-> "dbt", args |-> <<"compile">> \o Select("--select", arg)]>>
      [] op = "introspectDatabase" -> <<[tool |-> "dbt", args |-> <<"debug">>]>>
      [] op = "generateDocs" ->
            <<[tool |-> "dbt", args |-> <<"docs", "generate">>],
              [tool |-> "dbt", args |-> <<"docs", "serve", "--port", "8001">>]>>
      [] op = "runAsset"     ->
            <<[tool |-> "dagster", args |-> <<"asset", "materialize", "--select", arg>>]>>
      [] op = "runJob"       ->
            <<[tool |-> "dagster", args |-> <<"job", "execute", "--job", arg>>]>>
      [] op = "startDagster" -> <<[tool |-> "dagster", args |-> <<"dev", "--port", arg>>]>>
      [] op = "validatePipeline" ->
            <<[tool |-> "dagster", args |-> <<"pipeline", "validate">>]>>

OperationInputs ==
    ({"runModel", "testModel", "compileModel"} \X {"", "stg_a"})
    \cup ({"generateDocs", "validatePipeline"} \X {""})
    \cup ({"runAsset", "runJob"} \X {"a"})
    \cup ({"startDagster"} \X {"3000"})

\* stands for the absence of an exit code
NoCode == 99

\* the `code` of a close event whose child was ended by a signal (null)
NullCode == 0 - 1

\* the `code` of the close event that follows a failed launch
LaunchFailedCode == 0 - 2

\* codes a child that was launched can close with
ExitCodes == {0, 1, 2, NullCode}

\* mutant: every close resolves
CloseOutcome_AnyExit(code) == "resolved"

\* on('close', code => code === 0 ? resolve() : reject(...))
CloseOutcome(code) == IF code = 0 THEN "resolved" ELSE "rejected"

\* operations explored per behaviour
MaxOperations == 2

InitProcess ==
    /\ pOp = [op |-> "none", arg |-> ""]
    /\ pQueue = <<>>
    /\ pCmd = [tool |-> "none", args |-> <<>>]
    /\ pChild = "none"
    /\ pPromise = "none"
    /\ pBy = "none"
    /\ pCode = NoCode
    /\ pOpResult = "none"
    /\ pReqs = 0
    /\ pSpawns = 0
    /\ pN = 0

IdleProcess == InitProcess

\* new Promise(...): spawn(tool, args, ...), once, and the two handlers attached
Request(cmd) ==
    /\ pCmd' = cmd
    /\ pChild' = "running"
    /\ pPromise' = "pending"
    /\ pBy' = "none"
    /\ pCode' = NoCode

\* a public operation is called and requests its first command
StartOperation ==
    \E in \in OperationInputs :
        /\ pOpResult # "pending"
        /\ pN < MaxOperations
        /\ pN' = pN + 1
        /\ pOp' = [op |-> in[1], arg |-> in[2]]
        /\ pOpResult' = "pending"
        /\ Request(CommandsOf(in[1], in[2])[1])
        /\ pQueue' = Tail(CommandsOf(in[1], in[2]))
        /\ pReqs' = 1
        /\ pSpawns' = 1
        /\ UNCHANGED <<dvars, rvars, cvars, yvars, mvars, gvars, kvars, avars, lvars>>

\* the child could not be launched: 'error' is emitted and its handler rejects
ChildError ==
    /\ pChild = "running"
    /\ pChild' = "errored"
    /\ pPromise' = IF pPromise = "pending" THEN "rejected" ELSE pPromise
    /\ pBy' = IF pPromise = "pending" THEN "error" ELSE pBy
    /\ UNCHANGED <<pOp, pQueue, pCmd, pCode, pOpResult, pReqs, pSpawns, pN>>
    /\ UNCHANGED <<dvars, rvars, cvars, yvars, mvars, gvars, kvars, avars, lvars>>

\* 'close' is emitted: after the child ended, or after a failed launch; its handler
\* resolves or rejects, which has no effect on a promise that is already settled
ChildClose ==
    \E code \in IF pChild = "errored" THEN {LaunchFailedCode} ELSE ExitCodes :
        /\ pChild \in {"running", "errored"}
        /\ pChild' = "closed"
        /\ pPromise' = IF pPromise = "pending" THEN CloseOutcome(code) ELSE pPromise
        /\ pBy' = IF pPromise = "pending" THEN "close" ELSE pBy
        /\ pCode' = IF pPromise = "pending" THEN code ELSE pCode
        /\ UNCHANGED <<pOp, pQueue, pCmd, pOpResult, pReqs, pSpawns, pN>>
        /\ UNCHANGED <<dvars, rvars, cvars, yvars, mvars, gvars, kvars, avars, lvars>>

\* the operation resumes after its `await`: it rejects with the request, requests
\* its next command, or resolves
Resume ==
    /\ pOpResult = "pending"
    /\ pPromise \in {"resolved", "rejected"}
    /\ IF pPromise = "rejected"
       THEN /\ pOpResult' = "rejected"
            /\ UNCHANGED <<pQueue, pCmd, pChild, pPromise, pBy, pCode, pReqs, pSpawns>>
       ELSE IF pQueue # <<>>
       THEN /\ Request(Head(pQueue))
            /\ pQueue' = Tail(pQueue)
            /\ pReqs' = pReqs + 1
            /\ pSpawns' = pSpawns + 1
            /\ UNCHANGED pOpResult
       ELSE /\ pOpResult' = "resolved"
            /\ UNCHANGED <<pQueue, pCmd, pChild, pPromise, pBy, pCode, pReqs, pSpawns>>
    /\ UNCHANGED <<pOp, pN>>
    /\ UNCHANGED <<dvars, rvars, cvars, yvars, mvars, gvars, kvars, avars, lvars>>

(***************************************************************************)
(* Two calls of updateInitFile, or of updateSchema, on the same file.      *)
(* Each call yields at `await readFile` and at `await writeFile`; nothing  *)
(* orders the two calls between these points.                              *)
(***************************************************************************)

Calls == {1, 2}

RaceKinds == {"index", "schema"}

RaceStartKinds == {"absent", "empty", "existing"}

RaceStartText(kind, start) ==
    IF start # "existing" THEN <<>>
    ELSE IF kind = "index" THEN UpdateInitContent(<<>>, <<"c">>).text
    ELSE generateBasicYaml(<<NewModel(IntA)>>)

RaceItems(kind) == IF kind = "index" THEN SymNames ELSE {StgA, StgB}

\* mutant: the text to write is computed from the file as it is at the write
RaceBasis_Current(seen, current) == current

\* the text to write is computed from the content the call read
RaceBasis(seen, current) == seen

\* what a call writes, given what it takes the file to hold: [written, text]
Computed(kind, item, exists, text) ==
    IF kind = "index"
    THEN UpdateInitContent(IF exists THEN text ELSE <<>>, item)
    ELSE [written |-> TRUE,
          text |-> generateBasicYaml(
                       UpsertModel(IF exists THEN parseBasicYaml(text) ELSE <<>>,
                                   item, <<>>, <<>>, <<>>))]

IdleCall == [pc |-> "idle", item |-> <<>>, seenExists |-> FALSE, seen |-> <<>>, wrote |-> FALSE]

InitRaceAt(kind, start) ==
    /\ kKind = kind
    /\ kExists = (start # "absent")
    /\ kText = RaceStartText(kind, start)
    /\ kInv = [c \in Calls |-> IdleCall]
    /\ kLastWriter = 0

InitRace == \E kind \in RaceKinds, start \in RaceStartKinds : InitRaceAt(kind, start)

IdleRace == InitRaceAt("index", "absent")

\* a call starts: existsSync, then readFile resolves with the file's text
BeginUpdate ==
    \E c \in Calls, item \in RaceItems(kKind) :
        /\ kInv[c].pc = "idle"
        /\ kInv' = [kInv EXCEPT ![c] = [pc |-> "read", item |-> item,
                                        seenExists |-> kExists,
                                        seen |-> IF kExists THEN kText ELSE <<>>,
                                        wrote |-> FALSE]]
        /\ UNCHANGED <<kKind, kExists, kText, kLastWriter>>
        /\ UNCHANGED <<dvars, rvars, cvars, yvars, mvars, gvars, pvars, avars, lvars>>

\* the call goes on: it computes the new text and writeFile replaces the file
FinishUpdate ==
    \E c \in Calls :
        LET r == Computed(kKind, kInv[c].item,
                          RaceBasis(kInv[c].seenExists, kExists),
                          RaceBasis(kInv[c].seen, kText))
        IN  /\ kInv[c].pc = "read"
            /\ kInv' = [kInv EXCEPT ![c].pc = "done", ![c].wrote = r.written]
            /\ kExists' = (kExists \/ r.written)
            /\ kText' = IF r.written THEN r.text ELSE kText
            /\ kLastWriter' = IF r.written THEN c ELSE kLastWriter
            /\ UNCHANGED kKind
            /\ UNCHANGED <<dvars, rvars, cvars, yvars, mvars, gvars, pvars, avars, lvars>>

(***************************************************************************)
(* AIEngine and its providers.  A promise's outcome is [status, value,     *)
(* error]; a value is [body, description], description empty for a string. *)
(***************************************************************************)

NoValue == [body |-> <<>>, description |-> <<>>]

Resolved(body, description) ==
    [status |-> "resolved", value |-> [body |-> body, description |-> description],
     error |-> ""]

Rejected(message) == [status |-> "rejected", value |-> NoValue, error |-> message]

DbtModelWords == "DBT model"

DagsterAssetWords == "Dagster asset"

\* buildDbtSystemPrompt / buildDagsterSystemPrompt, with the default (empty) context
DbtSystemPrompt ==
    <<"You are an expert DBT developer. Generate a ", DbtModelWords,
      " based on the user's request.">>

DagsterSystemPrompt ==
    <<"You are an expert Dagster developer. Generate a ", DagsterAssetWords,
      " based on the user's request.">>

FullPrompt(systemPrompt, prompt) == systemPrompt \o <<"\n", "\n", "User Request: ">> \o prompt

DocumentationPrompt(modelName, sql) ==
    <<"Generate comprehensive ", "documentation", " for this ", DbtModelWords, ":", "\n", "\n",
      "Model Name: ">> \o modelName \o <<"\n", "SQL Code:", "\n">> \o sql
    \o <<"\n", "\n", "Format the response as markdown.">>

\* the fences of a code block in a response; <fence> stands for three backquotes
SqlFence == "<fence>sql\n"

PythonFence == "<fence>python\n"

CloseFence == "\n<fence>"

MockDbtResponse ==
    <<SqlFence, "-- Generated ", DbtModelWords, " based on user request", "\n",
      ConfigOpen, "materialized='", "view", "'", ConfigClose, "\n", "\n",
      "select id from {{ source('raw', 'users'", ConfigClose, CloseFence, "\n", "\n",
      "DESCRIPTION:", " ", "Sample ", DbtModelWords, " that selects user data.">>

MockDagsterResponse ==
    <<PythonFence, "from dagster import asset", "\n", "import pandas as pd", "\n", "\n",
      "@asset(description=\"Sample data processing asset\")", "\n", "def sample_asset():",
      CloseFence, "\n", "\n",
      "DESCRIPTION:", " ", "Sample ", DagsterAssetWords, " that processes data.">>

MockOtherResponse == <<"This is a mock response. Please configure a real AI provider.">>

NotImplemented(provider) ==
    IF provider = "anthropic" THEN "Anthropic provider not yet implemented"
    ELSE "Local provider not yet implemented"

\* provider.generate(prompt)
ProviderGenerate(provider, prompt) ==
    IF provider = "openai"
    THEN IF Includes(prompt, <<DbtModelWords>>) THEN Resolved(MockDbtResponse, <<>>)
         ELSE IF Includes(prompt, <<DagsterAssetWords>>) THEN Resolved(MockDagsterResponse, <<>>)
         ELSE Resolved(MockOtherResponse, <<>>)
    ELSE Rejected(NotImplemented(provider))

\* provider.explain(code, codeType)
ProviderExplain(provider, code, codeType) ==
    IF provider = "openai"
    THEN Resolved(<<"## Code Explanation", "\n", "\n", "This ", codeType,
                    " code appears to:">>, <<>>)
    ELSE Rejected(NotImplemented(provider))

\* provider.optimize(code, codeType)
ProviderOptimize(provider, code, codeType) ==
    IF provider = "openai"
    THEN Resolved(<<"## Optimization Suggestions", "\n", "\n",
                    "1. **Performance**: Consider adding indexes">>, <<>>)
    ELSE Rejected(NotImplemented(provider))

\* response.match(/<fence><lang>\n([\s\S]*?)\n<fence>/): [found, body]
FencedBody(response, fence) ==
    LET open == {i \in 1..Len(response) : response[i] = fence} IN
    IF open = {} THEN [found |-> FALSE, body |-> <<>>]
    ELSE LET i     == MinOf(open)
             close == {j \in (i + 1)..Len(response) : response[j] = CloseFence}
         IN  IF close = {} THEN [found |-> FALSE, body |-> <<>>]
             ELSE [found |-> TRUE, body |-> Trim(SubSeq(response, i + 1, MinOf(close) - 1))]

\* response.match(/DESCRIPTION:\s*(.+)/): the rest of the line, trimmed, or the default
ResponseDescription(response, default) ==
    LET at == {i \in 1..Len(response) : response[i] = "DESCRIPTION:"} IN
    IF at = {} THEN default
    ELSE LET rest == TrimStart(SubSeq(response, MinOf(at) + 1, Len(response)))
             line == Split(rest, "\n")[1]
         IN  IF rest = <<>> THEN default ELSE Trim(line)

\* parseDbtResponse / parseDagsterResponse
ParseResponse(response, fence, failure, default) ==
    LET m == FencedBody(response, fence) IN
    IF ~m.found THEN Rejected(failure)
    ELSE Resolved(m.body, ResponseDescription(response, default))

\* mutant: the engine replaces the provider's error by its own
Rethrow_Own(outcome, message) ==
    IF outcome.status = "rejected" THEN Rejected(message) ELSE outcome

\* catch (error) { console.error(message); throw error; }
Rethrow(outcome, message) == outcome

generateDbtModel(provider, prompt) ==
    LET response == ProviderGenerate(provider, FullPrompt(DbtSystemPrompt, prompt)) IN
    Rethrow(IF response.status = "rejected" THEN response
            ELSE ParseResponse(response.value.body, SqlFence,
                               "Could not parse SQL from AI response",
                               <<"AI-generated ", DbtModelWords>>),
            "Failed to generate DBT model")

generateDagsterAsset(provider, prompt) ==
    LET response == ProviderGenerate(provider, FullPrompt(DagsterSystemPrompt, prompt)) IN
    Rethrow(IF response.status = "rejected" THEN response
            ELSE ParseResponse(response.value.body, PythonFence,
                               "Could not parse Python code from AI response",
                               <<"AI-generated ", DagsterAssetWords>>),
            "Failed to generate Dagster asset")

explainCode(provider, code, codeType) ==
    Rethrow(ProviderExplain(provider, code, codeType), "Failed to explain code")

optimizeCode(provider, code, codeType) ==
    Rethrow(ProviderOptimize(provider, code, codeType), "Failed to optimize code")

generateDocumentation(provider, modelName, sql) ==
    Rethrow(ProviderGenerate(provider, DocumentationPrompt(modelName, sql)),
            "Failed to generate documentation")

ProviderInputs == {"openai", "anthropic", "local", "gemini"}

PromptInputs ==
    {<<"daily users">>, <<"a ", DbtModelWords, " of users">>,
     <<"wrap my ", DagsterAssetWords>>}

CodeInputs == {<<"select 1">>, <<"def f(): pass">>}

CodeTypes == {"sql", "python"}

NoOutcome == [status |-> "none", value |-> NoValue, error |-> ""]

\* method calls explored per behaviour
MaxEngineCalls == 3

InitEngine ==
    /\ aProvider = "none"
    /\ aEngine = "none"
    /\ aLast = [method |-> "none", input |-> <<>>, codeType |-> ""]
    /\ aOutcome = NoOutcome
    /\ aN = 0

IdleEngine == InitEngine

\* new AIEngine(config): createProvider throws for a provider it does not know
Construct ==
    \E provider \in ProviderInputs :
        /\ aEngine = "none"
        /\ aProvider' = provider
        /\ aEngine' = IF provider \in {"openai", "anthropic", "local"} THEN "built" ELSE "threw"
        /\ UNCHANGED <<aLast, aOutcome, aN>>
        /\ UNCHANGED <<dvars, rvars, cvars, yvars, mvars, gvars, pvars, kvars, lvars>>

SettleEngine(method, input, codeType, outcome) ==
    /\ aEngine = "built"
    /\ aN < MaxEngineCalls
    /\ aN' = aN + 1
    /\ aLast' = [method |-> method, input |-> input, codeType |-> codeType]
    /\ aOutcome' = outcome
    /\ UNCHANGED <<aProvider, aEngine>>
    /\ UNCHANGED <<dvars, rvars, cvars, yvars, mvars, gvars, pvars, kvars, lvars>>

CallGenerateDbtModel ==
    \E prompt \in PromptInputs :
        SettleEngine("generateDbtModel", prompt, "", generateDbtModel(aProvider, prompt))

CallGenerateDagsterAsset ==
    \E prompt \in PromptInputs :
        SettleEngine("generateDagsterAsset", prompt, "",
                     generateDagsterAsset(aProvider, prompt))

CallExplainCode ==
    \E code \in CodeInputs, codeType \in CodeTypes :
        SettleEngine("explainCode", code, codeType, explainCode(aProvider, code, codeType))

CallOptimizeCode ==
    \E code \in CodeInputs, codeType \in CodeTypes :
        SettleEngine("optimizeCode", code, codeType, optimizeCode(aProvider, code, codeType))

CallGenerateDocumentation ==
    \E modelName \in {StgA, IntA}, sql \in {<<"select 1">>} :
        SettleEngine("generateDocumentation", modelName, "",
                     generateDocumentation(aProvider, modelName, sql))

(***************************************************************************)
(* The command line (src/cli.ts): runs of `dataweave <command>` in one     *)
(* working directory.  A run ends with [exit, error, ops, w, spawns]: the  *)
(* exit code, the message printed by the handler's catch, the manager and  *)
(* engine operations it called, the file system it left and the number of  *)
(* child processes it spawned.                                             *)
(***************************************************************************)

\* what .dataweave/config.json is: absent, present but readFile rejects, not JSON,
\* the JSON value null, an object without `ai.provider`, an object whose
\* `ai.provider` is 'gemini'
ConfigKinds == {"absent", "unreadable", "corrupt", "null", "plain", "gemini"}

NoProjectError == "No dataweave project found. Run \"dataweave init\" first."

LoadFailedError == "Failed to load dataweave config"

\* mutant: the config file is neither looked for nor parsed
loadDataweaveConfig_Unchecked(kind) == [ok |-> TRUE, error |-> "", config |-> kind]

loadDataweaveConfig(kind) ==
    IF kind = "absent" THEN [ok |-> FALSE, error |-> NoProjectError, config |-> "none"]
    ELSE IF kind \in {"unreadable", "corrupt"}
    THEN [ok |-> FALSE, error |-> LoadFailedError, config |-> "none"]
    ELSE [ok |-> TRUE, error |-> "", config |-> kind]

\* createAIEngine: [ok, error, provider]; `config.ai` throws on null, and the
\* constructor throws for a provider createProvider does not know
createAIEngine(kind) ==
    LET c == loadDataweaveConfig(kind) IN
    IF ~c.ok THEN [ok |-> FALSE, error |-> c.error, provider |-> "none"]
    ELSE IF c.config = "null"
    THEN [ok |-> FALSE, error |-> "Cannot read properties of null", provider |-> "none"]
    ELSE IF c.config \notin {"plain", "openai", "anthropic", "local"}
    THEN [ok |-> FALSE, error |-> "Unsupported AI provider", provider |-> "none"]
    ELSE [ok |-> TRUE, error |-> "",
          provider |-> IF c.config = "plain" THEN "openai" ELSE c.config]

\* catch (error) { spinner.fail(...); console.error(...); process.exit(1) }
Failed(error, ops, w, spawns) ==
    [exit |-> 1, error |-> error, ops |-> ops, w |-> w, spawns |-> spawns]

\* the handler returned and the process ended by itself
Done(ops, w, spawns) ==
    [exit |-> 0, error |-> "", ops |-> ops, w |-> w, spawns |-> spawns]

\* the end of a run whose last step was a generator call that left the world w
AfterWrite(ops, w) ==
    IF w.ok THEN Done(ops, w, 0) ELSE Failed("ENOENT", ops, [w EXCEPT !.ok = TRUE], 0)

\* dbt:model:new <name>, without options
DbtModelNew(kind, w, name) ==
    IF ~loadDataweaveConfig(kind).ok
    THEN Failed(loadDataweaveConfig(kind).error, <<>>, w, 0)
    ELSE AfterWrite(<<"generateModel">>,
                    generateModel(w, [NoOptions EXCEPT !.name = name,
                                                       !.materializedAs = "view"]))

\* DagsterManager.generateDbtAsset: no mkdir before the write
generateDbtAsset(w, modelName) ==
    UpdateInitFile(WriteFile(w, PyFile("assets", <<"dbt_">> \o modelName),
                             <<"from dagster_dbt import dbt_assets", "\n", "def dbt_">>
                             \o modelName),
                   "assets", <<"dbt_">> \o modelName)

\* dagster:asset:new <name>, dagster:job:new <name> [--schedule], dagster:dbt:asset <model>
DagsterNew(kind, w, command, name, schedule) ==
    IF ~loadDataweaveConfig(kind).ok
    THEN Failed(loadDataweaveConfig(kind).error, <<>>, w, 0)
    ELSE IF command = "dagster:asset:new"
    THEN AfterWrite(<<"generateAsset">>, GenerateAssetWorld(w, name, schedule))
    ELSE IF command = "dagster:job:new"
    THEN AfterWrite(<<"generateJob">>, GenerateJobWorld(w, name, schedule))
    ELSE AfterWrite(<<"generateDbtAsset">>, generateDbtAsset(w, name))

\* the manager operation behind each command that runs dbt or dagster
OperationOf(command) ==
    CASE command = "dbt:run"            -> "runModel"
      [] command = "dbt:test"           -> "testModel"
      [] command = "dbt:compile"        -> "compileModel"
      [] command = "dbt:docs"           -> "generateDocs"
      [] command = "dbt:introspect"     -> "introspectDatabase"
      [] command = "dagster:run:asset"  -> "runAsset"
      [] command = "dagster:run:job"    -> "runJob"
      [] command = "dagster:dev"        -> "startDagster"
      [] command = "dagster:validate"   -> "validatePipeline"

\* a command that runs dbt or dagster; codes[k] is the exit code of its k-th child
ToolCommand(kind, w, command, arg, codes) ==
    IF ~loadDataweaveConfig(kind).ok
    THEN Failed(loadDataweaveConfig(kind).error, <<>>, w, 0)
    ELSE LET cmds    == CommandsOf(OperationOf(command), arg)
             failing == {k \in 1..Len(cmds) : CloseOutcome(codes[k]) = "rejected"}
         IN  IF failing = {} THEN Done(<<OperationOf(command)>>, w, Len(cmds))
             ELSE Failed("command failed", <<OperationOf(command)>>, w, MinOf(failing))

\* ai:generate:dbt <prompt> [-n name], ai:generate:dagster <prompt> [-n name];
\* name = <<>> when -n is not given
AiGenerate(kind, w, command, prompt, name) ==
    LET e == createAIEngine(kind) IN
    IF ~e.ok THEN Failed(e.error, <<>>, w, 0)
    ELSE IF command = "ai:generate:dbt"
    THEN LET r == generateDbtModel(e.provider, prompt) IN
         IF r.status = "rejected" THEN Failed(r.error, <<"generateDbtModel">>, w, 0)
         ELSE IF name = <<>> THEN Done(<<"generateDbtModel">>, w, 0)
         ELSE AfterWrite(<<"generateDbtModel", "generateModel">>,
                         generateModel(w, [NoOptions EXCEPT
                                              !.name = name, !.sql = r.value.body,
                                              !.description = r.value.description,
                                              !.materializedAs = "view"]))
    ELSE LET r == generateDagsterAsset(e.provider, prompt) IN
         IF r.status = "rejected" THEN Failed(r.error, <<"generateDagsterAsset">>, w, 0)
         ELSE IF name = <<>> THEN Done(<<"generateDagsterAsset">>, w, 0)
         ELSE AfterWrite(<<"generateDagsterAsset", "generateAsset">>,
                         generateAsset(w, [NoAssetOptions EXCEPT
                                              !.name = name, !.code = r.value.body,
                                              !.description = r.value.description]))

ModelNotFoundError == "DBT model not found"

\* join(cwd, 'data', 'dbt', 'models', 'staging', `${model}.sql`)
DocumentPath(model) == SqlPath("staging", model)

\* ai:document <model>: the file is looked for before the config is
AiDocument(kind, w, model) ==
    IF ~ExistsSync(w, DocumentPath(model)) THEN Failed(ModelNotFoundError, <<>>, w, 0)
    ELSE LET e == createAIEngine(kind) IN
         IF ~e.ok THEN Failed(e.error, <<>>, w, 0)
         ELSE LET r == generateDocumentation(e.provider, model, w.fs[DocumentPath(model)])
              IN  IF r.status = "rejected"
                  THEN Failed(r.error, <<"generateDocumentation">>, w, 0)
                  ELSE Done(<<"generateDocumentation">>, w, 0)

NoCommand == [name |-> "none", arg |-> <<>>]

\* runs explored per behaviour
MaxRuns == 2

CliModelNames == {StgA, IntA}

InitCli ==
    /\ lConfig \in ConfigKinds
    /\ lfs = <<>>
    /\ ldirs \in {{}, {"assets"}}
    /\ lCmd = NoCommand
    /\ lExit = NoCode
    /\ lError = ""
    /\ lOps = <<>>
    /\ lWrites = <<>>
    /\ lSpawns = 0
    /\ lCreated = {}
    /\ lN = 0

IdleCli ==
    /\ lConfig = "absent"
    /\ lfs = <<>>
    /\ ldirs = {}
    /\ lCmd = NoCommand
    /\ lExit = NoCode
    /\ lError = ""
    /\ lOps = <<>>
    /\ lWrites = <<>>
    /\ lSpawns = 0
    /\ lCreated = {}
    /\ lN = 0

\* one run of the command line, from its start to the end of its process
SettleRun(command, arg, run) ==
    /\ lN < MaxRuns
    /\ lN' = lN + 1
    /\ lCmd' = [name |-> command, arg |-> arg]
    /\ lExit' = run.exit
    /\ lError' = run.error
    /\ lOps' = run.ops
    /\ lWrites' = run.w.writes
    /\ lSpawns' = run.spawns
    /\ lfs' = run.w.fs
    /\ ldirs' = run.w.dirs
    /\ lCreated' = IF command = "dbt:model:new" /\ run.exit = 0
                   THEN lCreated \cup {arg} ELSE lCreated
    /\ UNCHANGED <<lConfig, dvars, rvars, cvars, yvars, mvars, gvars, pvars, kvars, avars>>

RunDbtModelNew ==
    \E name \in CliModelNames :
        SettleRun("dbt:model:new", name, DbtModelNew(lConfig, World(lfs, ldirs), name))

RunDagsterNew ==
    \E command \in {"dagster:asset:new", "dagster:job:new", "dagster:dbt:asset"},
       schedule \in BOOLEAN :
        /\ schedule => command # "dagster:dbt:asset"
        /\ SettleRun(command, <<"a">>,
                     DagsterNew(lConfig, World(lfs, ldirs), command, <<"a">>, schedule))

RunToolCommand ==
    \E command \in {"dbt:run", "dbt:test", "dbt:compile", "dbt:docs", "dbt:introspect",
                    "dagster:run:asset", "dagster:run:job", "dagster:dev",
                    "dagster:validate"},
       codes \in [1..2 -> {0, 1}] :
        SettleRun(command, <<>>,
                  ToolCommand(lConfig, World(lfs, ldirs), command,
                              IF command \in {"dagster:run:asset", "dagster:run:job"}
                              THEN "a"
                              ELSE IF command = "dagster:dev" THEN "3000" ELSE "",
                              codes))

RunAiGenerate ==
    \E command \in {"ai:generate:dbt", "ai:generate:dagster"},
       prompt \in PromptInputs, name \in {<<>>, StgA} :
        SettleRun(command, name,
                  AiGenerate(lConfig, World(lfs, ldirs), command, prompt, name))

RunAiDocument ==
    \E model \in CliModelNames :
        SettleRun("ai:document", model, AiDocument(lConfig, World(lfs, ldirs), model))

(***************************************************************************)
(* Specifications                                                          *)
(***************************************************************************)

IdleDagster == InitDagsterAt("nodirs")

InitDagster == \E kind \in StartKinds : InitDagsterAt(kind)

NextDagster ==
    \/ CallUpdateInitFile
    \/ CallGenerateAsset
    \/ CallGenerateJob

StartDagster ==
    /\ InitDagster
    /\ IdleResolver /\ IdleConfig /\ IdleYaml /\ IdleModels /\ IdleArtifacts
    /\ IdleProcess /\ IdleRace /\ IdleEngine /\ IdleCli

SpecDagster == StartDagster /\ [][NextDagster]_vars

NextResolver == ResolveDirectory

StartResolver ==
    /\ InitResolver
    /\ IdleDagster /\ IdleConfig /\ IdleYaml /\ IdleModels /\ IdleArtifacts
    /\ IdleProcess /\ IdleRace /\ IdleEngine /\ IdleCli

SpecResolver == StartResolver /\ [][NextResolver]_vars

NextConfig == ApplyConfig

StartConfig ==
    /\ InitConfig
    /\ IdleDagster /\ IdleResolver /\ IdleYaml /\ IdleModels /\ IdleArtifacts
    /\ IdleProcess /\ IdleRace /\ IdleEngine /\ IdleCli

SpecConfig == StartConfig /\ [][NextConfig]_vars

NextYaml ==
    \/ WriteDocument
    \/ ReadBack
    \/ WriteAgain

StartYaml ==
    /\ InitYaml
    /\ IdleDagster /\ IdleResolver /\ IdleConfig /\ IdleModels /\ IdleArtifacts
    /\ IdleProcess /\ IdleRace /\ IdleEngine /\ IdleCli

SpecYaml == StartYaml /\ [][NextYaml]_vars

NextModels == CallGenerateModel

NextEngine ==
    \/ Construct
    \/ CallGenerateDbtModel
    \/ CallGenerateDagsterAsset
    \/ CallExplainCode
    \/ CallOptimizeCode
    \/ CallGenerateDocumentation

StartEngine ==
    /\ InitEngine
    /\ IdleDagster /\ IdleResolver /\ IdleConfig /\ IdleYaml /\ IdleModels
    /\ IdleArtifacts /\ IdleProcess /\ IdleRace /\ IdleCli

SpecEngine == StartEngine /\ [][NextEngine]_vars

NextSchema == GenerateModelAny

StartSchema ==
    /\ InitSchemaFiles
    /\ IdleDagster /\ IdleResolver /\ IdleConfig /\ IdleYaml /\ IdleArtifacts
    /\ IdleProcess /\ IdleRace /\ IdleEngine /\ IdleCli

SpecSchema == StartSchema /\ [][NextSchema]_vars

NextRace ==
    \/ BeginUpdate
    \/ FinishUpdate

StartRace ==
    /\ InitRace
    /\ IdleDagster /\ IdleResolver /\ IdleConfig /\ IdleYaml /\ IdleModels
    /\ IdleArtifacts /\ IdleProcess /\ IdleEngine /\ IdleCli

SpecRace == StartRace /\ [][NextRace]_vars

NextProcess ==
    \/ StartOperation
    \/ ChildError
    \/ ChildClose
    \/ Resume

StartProcess ==
    /\ InitProcess
    /\ IdleDagster /\ IdleResolver /\ IdleConfig /\ IdleYaml /\ IdleModels
    /\ IdleArtifacts /\ IdleRace /\ IdleEngine /\ IdleCli

SpecProcess == StartProcess /\ [][NextProcess]_vars

NextArtifacts ==
    \/ GenerateAssetAny
    \/ GenerateJobAny
    \/ GenerateModelAny

StartArtifacts ==
    /\ InitArtifacts
    /\ IdleDagster /\ IdleResolver /\ IdleConfig /\ IdleYaml /\ IdleModels
    /\ IdleProcess /\ IdleRace /\ IdleEngine /\ IdleCli

SpecArtifacts == StartArtifacts /\ [][NextArtifacts]_vars

NextCli ==
    \/ RunDbtModelNew
    \/ RunDagsterNew
    \/ RunToolCommand
    \/ RunAiGenerate
    \/ RunAiDocument

StartCli ==
    /\ InitCli
    /\ IdleDagster /\ IdleResolver /\ IdleConfig /\ IdleYaml /\ IdleModels
    /\ IdleArtifacts /\ IdleProcess /\ IdleRace /\ IdleEngine

SpecCli == StartCli /\ [][NextCli]_vars

StartModels ==
    /\ InitModels
    /\ IdleDagster /\ IdleResolver /\ IdleConfig /\ IdleYaml /\ IdleArtifacts
    /\ IdleProcess /\ IdleRace /\ IdleEngine /\ IdleCli

SpecModels == StartModels /\ [][NextModels]_vars

(***************************************************************************)
(* Properties of the index-file merger                                     *)
(***************************************************************************)

\* the <<directory, symbol>> pairs a call registers
RegTargets(call) ==
    IF call.op = "updateInitFile" THEN {<<call.dir, call.name>>}
    ELSE IF call.op \in {"generateAsset", "generateJob"}
    THEN {<<call.dir, call.name>>}
         \cup (IF call.schedule THEN {<<"schedules", ScheduleSymbol(call.name)>>} ELSE {})
    ELSE {}

\* the names the __all__ list of an index file lists, in order, quotes removed
ListedNames(text) ==
    LET m == AllMatch(text) IN
    IF m.start = 0 THEN <<>> ELSE ExistingItems(text, m)

NoDuplicates(seq) == \A i, j \in 1..Len(seq) : seq[i] = seq[j] => i = j

\* C1: registering a symbol in a directory a second time (by updateInitFile, or
\* by generateAsset / generateJob with the same name) leaves the index file
\* byte-identical, with exactly one import line for the symbol, and the second
\* call does not write the index file.
C1_IdempotentRegistration ==
    [][ (dResult = "ok" /\ dResult' = "ok") =>
          \A t \in RegTargets(dLast) \cap RegTargets(dLast') :
              /\ InitPath(t[1]) \in DOMAIN dfs
              /\ InitPath(t[1]) \in DOMAIN dfs'
              /\ dfs'[InitPath(t[1])] = dfs[InitPath(t[1])]
              /\ ~SeqContains(dWrites', InitPath(t[1]))
              /\ CountOccurrences(dfs'[InitPath(t[1])], ImportLine(t[2])) = 1 ]_vars

C1_Witness ==
    /\ dLast.op = "generateAsset"
    /\ dPrev = dLast
    /\ dResult = "ok"
    /\ dCalls = 2
    /\ dStart = "absent"
    /\ CountOccurrences(dfs[InitPath("assets")], ImportLine(dLast.name)) = 1
    /\ dWrites = <<PyFile("assets", dLast.name)>>

\* C2: on an index file that started absent or empty, the single __all__ list names
\* each registered symbol exactly once, in the order of first registration.
C2_AllListsRegistrationOrder ==
    dStart \in {"nodirs", "absent", "empty"} =>
        \A d \in DagDirs :
            regOrder[d] # <<>> =>
                /\ InitPath(d) \in DOMAIN dfs
                /\ CountOccurrences(dfs[InitPath(d)], <<"__all__">>) = 1
                /\ ListedNames(dfs[InitPath(d)]) = regOrder[d]
                /\ NoDuplicates(ListedNames(dfs[InitPath(d)]))

C2_Witness ==
    /\ dStart = "empty"
    /\ dCalls = 3
    /\ Len(regOrder["schedules"]) = 3
    /\ ListedNames(dfs[InitPath("schedules")]) = regOrder["schedules"]

(***************************************************************************)
(* Properties of getModelDirectory                                         *)
(***************************************************************************)

HasPrefix(name, p) == Len(name) >= Len(p) /\ SubSeq(name, 1, Len(p)) = p

\* C7: getModelDirectory returns a directory for every name: staging for stg_,
\* intermediate for int_, marts for fct_ and dim_, staging for every other name.
C7_DirectoryDispatch ==
    rDir # "unresolved" =>
        /\ rDir \in {"staging", "intermediate", "marts"}
        /\ HasPrefix(rName, StgPrefix) => rDir = "staging"
        /\ HasPrefix(rName, IntPrefix) => rDir = "intermediate"
        /\ (HasPrefix(rName, FctPrefix) \/ HasPrefix(rName, DimPrefix)) => rDir = "marts"
        /\ (\A p \in {StgPrefix, IntPrefix, FctPrefix, DimPrefix} : ~HasPrefix(rName, p))
              => rDir = "staging"

C7_Witness ==
    /\ rName = <<"o", "t", "h", "e", "r", "_", "x">>
    /\ rDir = "staging"

(***************************************************************************)
(* Properties of addModelConfig                                            *)
(***************************************************************************)

\* the text holds a config call written on one line: `{{ config(` ... `) }}`
ContainsHeader(s) ==
    \E i, j \in 1..Len(s) :
        /\ i < j
        /\ s[i] = ConfigOpen
        /\ s[j] = ConfigClose
        /\ \A k \in (i + 1)..(j - 1) : s[k] \notin {"\n", ConfigOpen, ConfigClose}

\* number of config calls opened in the text
CountHeaders(s) == Cardinality({i \in 1..Len(s) : s[i] = ConfigOpen})

RequestedHeader == ConfigLine(cOpts.m, cOpts.tags)

\* C8: given SQL that already contains a config header, addModelConfig returns text
\* with exactly one config header, and it is the header for the requested options.
C8_HeaderReplaced ==
    (cN >= 1 /\ ContainsHeader(cIn)) =>
        /\ CountHeaders(cOut) = 1
        /\ Includes(cOut, RequestedHeader)

BlankOrComment(line) == Trim(line) = <<>> \/ HasPrefix(Trim(line), <<"-", "-">>)

C10_RerunOverwrites ==
    cN = 2 =>
        /\ CountHeaders(cOut) = 1
        /\ Includes(cOut, RequestedHeader)
        /\ cOpts = cPrevOpts => cOut = cIn

(***************************************************************************)
(* Properties of the schema file.  The text generateBasicYaml writes is    *)
(* read here by its indentation: a model's `- name:` stands one level in,  *)
(* its description, `tests:` and `columns:` two, its tests and its         *)
(* columns' `- name:` three, a column's description and `tests:` four, a   *)
(* column's tests five.                                                    *)
(***************************************************************************)

RECURSIVE LineIndent(_)
LineIndent(line) ==
    IF line # <<>> /\ Head(line) = "  " THEN 1 + LineIndent(Tail(line)) ELSE 0

LineBody(line) == SubSeq(line, LineIndent(line) + 1, Len(line))

NameKey == <<"- name", ":", " ">>

DescriptionKey == <<"description", ":", " ">>

AfterKey(body, key) == SubSeq(body, Len(key) + 1, Len(body))

WrittenLine(models, line) ==
    LET n    == LineIndent(line)
        b    == LineBody(line)
        last == Len(models)
        cols == IF last = 0 THEN 0 ELSE Len(models[last].columns)
    IN  IF n = 1 /\ HasPrefix(b, NameKey)
        THEN Append(models, NewModel(AfterKey(b, NameKey)))
        ELSE IF last = 0 THEN models
        ELSE IF n = 2 /\ HasPrefix(b, DescriptionKey)
        THEN [models EXCEPT ![last].description = AfterKey(b, DescriptionKey)]
        ELSE IF n = 3 /\ HasPrefix(b, <<"- ">>)
        THEN [models EXCEPT ![last].tests = Append(@, AfterKey(b, <<"- ">>))]
        ELSE IF n = 3 /\ HasPrefix(b, NameKey)
        THEN [models EXCEPT ![last].columns = Append(@, NewColumn(AfterKey(b, NameKey)))]
        ELSE IF cols = 0 THEN models
        ELSE IF n = 4 /\ HasPrefix(b, DescriptionKey)
        THEN [models EXCEPT ![last].columns[cols].description = AfterKey(b, DescriptionKey)]
        ELSE IF n = 5 /\ HasPrefix(b, <<"- ">>)
        THEN [models EXCEPT ![last].columns[cols].tests = Append(@, AfterKey(b, <<"- ">>))]
        ELSE models

RECURSIVE WrittenLines(_, _)
WrittenLines(lines, k) ==
    IF k = 0 THEN <<>> ELSE WrittenLine(WrittenLines(lines, k - 1), lines[k])

\* the model records a schema file holds
WrittenModels(text) ==
    LET lines == Split(text, "\n") IN WrittenLines(lines, Len(lines))

\* the reading by indentation recovers every document the writer is given
WrittenModelsReadsWriter == yStage >= 1 => WrittenModels(yText1) = yDoc

\* C3: writing a document, reading it back and writing it again gives the text
\* of the first write.
C3_RoundTripStable == yStage = 3 => yText2 = yText1

\* the directories whose schema.yml existed before this step and is written by it
MergedDirs ==
    {d \in ModelDirs :
        /\ mCalls' = mCalls + 1
        /\ SchemaPath(d) \in DOMAIN mfs
        /\ SeqContains(mWrites', SchemaPath(d))}

\* C4: when generateModel upserts model B into a schema.yml that holds a different
\* model A and not B, the rewritten file holds A with the same fields, and B after it.
C4_MergeKeepsEarlierModel ==
    [][ \A d \in MergedDirs :
          LET before == WrittenModels(mfs[SchemaPath(d)])
              after  == WrittenModels(mfs'[SchemaPath(d)])
          IN  (\A i \in 1..Len(before) : before[i].name # mLast'.name) =>
                 \A i \in 1..Len(before) :
                    \E j, k \in 1..Len(after) :
                        /\ j < k
                        /\ after[j] = before[i]
                        /\ after[k].name = mLast'.name ]_vars

\* C5: when model m has a column with a description and m is upserted with a new
\* model description and no columns, the rewritten schema.yml still holds the
\* column with its description.
C5_UpsertKeepsColumnDocs ==
    [][ \A d \in MergedDirs :
          LET before == WrittenModels(mfs[SchemaPath(d)])
              after  == WrittenModels(mfs'[SchemaPath(d)])
          IN  (mLast'.description # <<>> /\ mLast'.columns = <<>>) =>
                 \A i \in 1..Len(before) :
                    before[i].name = mLast'.name =>
                       \A c \in 1..Len(before[i].columns) :
                          before[i].columns[c].description # <<>> =>
                             \E j \in 1..Len(after) :
                                /\ after[j].name = mLast'.name
                                /\ \E e \in 1..Len(after[j].columns) :
                                      /\ after[j].columns[e].name = before[i].columns[c].name
                                      /\ after[j].columns[e].description
                                            = before[i].columns[c].description ]_vars

\* C6: after any sequence of generateModel calls, the schema.yml of a directory
\* holds exactly one model record for each model name generated into it, and no other.
C6_OneRecordPerModel ==
    \A d \in ModelDirs :
        mReg[d] # <<>> =>
            /\ SchemaPath(d) \in DOMAIN mfs
            /\ LET doc == WrittenModels(mfs[SchemaPath(d)]) IN
                  /\ \A r \in 1..Len(mReg[d]) :
                        Cardinality({i \in 1..Len(doc) : doc[i].name = mReg[d][r]}) = 1
                  /\ \A i \in 1..Len(doc) : SeqContains(mReg[d], doc[i].name)

(***************************************************************************)
(* Properties of generateModel                                             *)
(***************************************************************************)

\* the directory the naming convention gives a model name
ConventionDir(name) ==
    IF HasPrefix(name, IntPrefix) THEN "intermediate"
    ELSE IF HasPrefix(name, FctPrefix) \/ HasPrefix(name, DimPrefix) THEN "marts"
    ELSE "staging"

\* the files a directory of the models tree holds
FilesIn(fs, d) == {path \in DOMAIN fs : path[1] = d}

\* C11: generateModel with a name and a materialization, no SQL and no description,
\* into a directory that holds no file, writes <dir>/<name>.sql in the directory of
\* the naming convention, with exactly one config header, the one for the requested
\* materialization, and writes <dir>/schema.yml holding one model record, for that
\* name, with no description.
C11_FreshModelFiles ==
    [][ LET o == mLast'
            d == ConventionDir(o.name)
        IN  (/\ mCalls' = mCalls + 1
             /\ FilesIn(mfs, d) = {}
             /\ o.sql = <<>>
             /\ o.description = <<>>) =>
                /\ FilesIn(mfs', d) = {SqlPath(d, o.name), SchemaPath(d)}
                /\ CountHeaders(mfs'[SqlPath(d, o.name)]) = 1
                /\ Includes(mfs'[SqlPath(d, o.name)],
                            <<ConfigOpen, "materialized='", o.materializedAs, "'", ConfigClose>>)
                /\ LET doc == WrittenModels(mfs'[SchemaPath(d)]) IN
                      /\ Len(doc) = 1
                      /\ doc[1].name = o.name
                      /\ doc[1].description = <<>> ]_vars

C11_Witness ==
    /\ mCalls = 1
    /\ mLast.name = IntA
    /\ mLast.materializedAs = "table"
    /\ mLast.description = <<>>
    /\ DOMAIN mfs = {SqlPath("intermediate", IntA), SchemaPath("intermediate")}
    /\ Includes(mfs[SqlPath("intermediate", IntA)],
                <<ConfigOpen, "materialized='", "table", "'", ConfigClose>>)

\* C12: when generateModel upserts a model that schema.yml already holds, an empty
\* tests list leaves the model's recorded tests as they were, an empty description
\* leaves its description as it was, and a non-empty columns list makes the
\* model's columns the given columns, in order, and no other.
C12_UpsertKeepsOmittedFields ==
    [][ \A d \in MergedDirs :
          LET before == WrittenModels(mfs[SchemaPath(d)])
              after  == WrittenModels(mfs'[SchemaPath(d)])
              o      == mLast'
          IN  \A i \in 1..Len(before) :
                 before[i].name = o.name =>
                    \E j \in 1..Len(after) :
                       /\ after[j].name = o.name
                       /\ o.tests = <<>> => after[j].tests = before[i].tests
                       /\ o.description = <<>> => after[j].description = before[i].description
                       /\ o.columns # <<>> =>
                             /\ Len(after[j].columns) = Len(o.columns)
                             /\ \A c \in 1..Len(o.columns) :
                                   after[j].columns[c].name = o.columns[c].name ]_vars

(***************************************************************************)
(* Properties of the generators under any input                            *)
(***************************************************************************)

\* C13: generateModel, generateAsset and generateJob called with the empty name
\* reject, and no file and no directory is created or changed.
C13_EmptyNameRejected ==
    [][ (gN' = gN + 1 /\ gCall'.o.name = <<>>) =>
            /\ gResult' = "error"
            /\ gWrites' = <<>>
            /\ dfs' = dfs /\ ddirs' = ddirs
            /\ mfs' = mfs /\ mdirs' = mdirs ]_vars

\* position of a path in a sequence of paths (0 if absent)
FirstAt(seq, path) ==
    IF SeqContains(seq, path) THEN MinOf({k \in 1..Len(seq) : seq[k] = path}) ELSE 0

\* the text generateAsset is to write to the asset file
AssetText(o) == IF o.code # <<>> THEN o.code ELSE generateDefaultAssetCode(o)

\* C14: generateModel hands <name>.sql to writeFile before schema.yml, and
\* generateAsset hands <name>.py to writeFile before __init__.py, and neither
\* touches the second file without having written the first; when the call
\* rejects after the first file was written, that file is on disk with the text
\* the call wrote.
C14_FailFastNoRollback ==
    [][ /\ (gN' = gN + 1 /\ gCall'.op = "generateAsset") =>
              LET o    == gCall'.o
                  file == PyFile("assets", o.name)
                  idx  == InitPath("assets")
              IN  /\ SeqContains(gWrites', idx) =>
                        /\ FirstAt(gWrites', file) = 1
                        /\ FirstAt(gWrites', file) < FirstAt(gWrites', idx)
                  /\ (gResult' = "error" /\ gWrites' # <<>>) =>
                        /\ gWrites'[1] = file
                        /\ file \in DOMAIN dfs'
                        /\ dfs'[file] = AssetText(o)
        /\ (gN' = gN + 1 /\ gCall'.op = "generateModel") =>
              LET o    == gCall'.o
                  d    == ConventionDir(o.name)
                  file == SqlPath(d, o.name)
              IN  /\ SeqContains(gWrites', SchemaPath(d)) =>
                        gWrites' = <<file, SchemaPath(d)>>
                  /\ (gResult' = "error" /\ gWrites' # <<>>) =>
                        /\ gWrites' = <<file>>
                        /\ file \in DOMAIN mfs'
                        /\ CountHeaders(mfs'[file]) = 1 ]_vars

\* an asset file written, then the index file refused: the call rejected and the
\* asset file is on disk; likewise a model file with its schema.yml refused
C14_Witness ==
    /\ gN = 2
    /\ gCall.op = "generateAsset"
    /\ gResult = "error"
    /\ gWrites = <<PyFile("assets", <<"a">>)>>
    /\ PyFile("assets", <<"a">>) \in DOMAIN dfs
    /\ InitPath("assets") \notin DOMAIN dfs
    /\ SqlPath("staging", StgA) \in DOMAIN mfs
    /\ SchemaPath("staging") \notin DOMAIN mfs

\* C15: when generateAsset is given code together with dependencies, tags, a
\* compute kind or an io manager, the asset file it writes names each of them.
C15_CodeKeepsAnnotations ==
    [][ (/\ gN' = gN + 1
         /\ gCall'.op = "generateAsset"
         /\ gResult' = "ok"
         /\ gCall'.o.code # <<>>) =>
            LET o    == gCall'.o
                text == dfs'[PyFile("assets", o.name)]
            IN  /\ \A k \in 1..Len(o.dependencies) : Includes(text, Quoted(o.dependencies[k]))
                /\ \A k \in 1..Len(o.tags) : Includes(text, Quoted(o.tags[k]))
                /\ o.compute_kind # <<>> => Includes(text, Quoted(o.compute_kind))
                /\ o.io_manager # <<>> => Includes(text, Quoted(o.io_manager)) ]_vars

(***************************************************************************)
(* Properties of the external commands                                     *)
(***************************************************************************)

\* C16: every request of an external command has spawned its child exactly once;
\* the request's promise is pending exactly while the child has emitted no event;
\* it is resolved exactly when a close event with exit code 0 settled it, and
\* rejected exactly when a close event with another code, or the error event of a
\* failed launch, settled it.
C16_SpawnOnceSettleOnChildEvent ==
    /\ pSpawns = pReqs
    /\ pOp.op # "none" => pReqs <= Len(CommandsOf(pOp.op, pOp.arg))
    /\ pPromise = "pending" <=> pChild = "running"
    /\ pPromise = "pending" <=> (pReqs > 0 /\ pBy = "none")
    /\ pPromise = "resolved" <=> (pBy = "close" /\ pCode = 0)
    /\ pPromise = "rejected" <=> (pBy = "error" \/ (pBy = "close" /\ pCode # 0))

\* the second command of generateDocs ended with exit code 1 and its request rejected
C16_Witness ==
    /\ pOp.op = "generateDocs"
    /\ pReqs = 2
    /\ pSpawns = 2
    /\ pCmd.args = <<"docs", "serve", "--port", "8001">>
    /\ pChild = "closed"
    /\ pPromise = "rejected"
    /\ pBy = "close"
    /\ pCode = 1

(***************************************************************************)
(* Properties of two calls on one file                                     *)
(***************************************************************************)

\* C17: when calls of updateInitFile (or of updateSchema) on the same file overlap,
\* no call fails, and after each write the file holds exactly the text the last
\* writer computed from the content it had read, whatever was written in between.
C17_LastWriterWins ==
    /\ \A c \in Calls : kInv[c].pc \in {"idle", "read", "done"}
    /\ kLastWriter # 0 =>
          LET c == kLastWriter IN
          /\ kInv[c].pc = "done"
          /\ kExists
          /\ kText = Computed(kKind, kInv[c].item, kInv[c].seenExists, kInv[c].seen).text

\* both calls read the file before either wrote: both completed, and the index
\* file registers the second writer's symbol and not the first writer's
C17_Witness ==
    /\ kKind = "index"
    /\ \A c \in Calls : kInv[c].pc = "done" /\ kInv[c].wrote
    /\ kInv[1].item = <<"a">>
    /\ kInv[2].item = <<"a", "b">>
    /\ kLastWriter = 2
    /\ kInv[2].seen = <<>>
    /\ ~Includes(kText, ImportLine(<<"a">>))
    /\ Includes(kText, ImportLine(<<"a", "b">>))

(***************************************************************************)
(* Properties of updateSchema on the schema.yml it finds                   *)
(***************************************************************************)

\* no line of the text is one the reader acts on
NoRecognisedLine(text) ==
    \A k \in 1..Len(Split(text, "\n")) :
        LET t == YamlTrim(Split(text, "\n")[k]) IN
        /\ ~HasPrefix(t, <<"- name", ":">>)
        /\ ~HasPrefix(t, <<"description", ":">>)
        /\ t # <<"columns", ":">>

\* C18: whatever schema.yml holds, generateModel whose writes are not refused
\* resolves and leaves a schema.yml that holds a record for the model, with the
\* tests given; when schema.yml was absent, or held no line the reader acts on,
\* that record is the whole document.
C18_SchemaContentNeverFails ==
    [][ (gN' = gN + 1 /\ gCall'.op = "generateModel" /\ gFault'.noWrite = {}) =>
            LET o     == gCall'.o
                p     == SchemaPath(ConventionDir(o.name))
                fresh == [NewModel(o.name) EXCEPT !.tests = o.tests]
            IN  /\ gResult' = "ok"
                /\ p \in DOMAIN mfs'
                /\ \E j \in 1..Len(WrittenModels(mfs'[p])) :
                      /\ WrittenModels(mfs'[p])[j].name = o.name
                      /\ o.tests # <<>> => WrittenModels(mfs'[p])[j].tests = o.tests
                /\ (p \notin DOMAIN mfs \/ NoRecognisedLine(mfs[p])) =>
                      WrittenModels(mfs'[p]) = <<fresh>> ]_vars

\* schema.yml held a JSON text; after generateModel it holds the one model
C18_Witness ==
    /\ mStart = "json"
    /\ gN = 1
    /\ gCall.op = "generateModel"
    /\ gCall.o.name = StgA
    /\ gFault = NoFault
    /\ gResult = "ok"
    /\ gWrites = <<SqlPath("staging", StgA), SchemaPath("staging")>>
    /\ WrittenModels(mfs[SchemaPath("staging")]) = <<NewModel(StgA)>>

(***************************************************************************)
(* Properties of updateInitFile on an index file without an __all__ list   *)
(***************************************************************************)

\* the text holds no `__all__` that a `[` follows
NoAllList(text) ==
    ~\E i, j \in 1..Len(text) : i < j /\ text[i] = "__all__" /\ text[j] = "["

\* the text, then the import line of the symbol, an empty line and a list of it alone
FreshlyRegistered(text, item) ==
    text \o <<"from .">> \o item \o <<" import ">> \o item \o <<"\n">>
    \o <<"\n", "__all__", " ", "=", " ", "[", "\"">> \o item \o <<"\"", "]", "\n">>

\* C19 as stated: whenever a symbol is registered in an existing index file that
\* holds no __all__ list, the call succeeds and the file becomes its former text
\* followed by the import line and a fresh __all__ list of exactly that symbol.
C19_NoListAppendsFresh ==
    [][ dCalls' = dCalls + 1 =>
          \A t \in RegTargets(dLast') :
              (InitPath(t[1]) \in DOMAIN dfs /\ NoAllList(dfs[InitPath(t[1])])) =>
                  /\ dResult' = "ok"
                  /\ dfs'[InitPath(t[1])] = FreshlyRegistered(dfs[InitPath(t[1])], t[2]) ]_vars

\* C19, amended: the same, for a symbol whose import line the file does not hold yet.
C19_NoListAppendsFreshUnlessImported ==
    [][ dCalls' = dCalls + 1 =>
          \A t \in RegTargets(dLast') :
              (/\ InitPath(t[1]) \in DOMAIN dfs
               /\ NoAllList(dfs[InitPath(t[1])])
               /\ ~Includes(dfs[InitPath(t[1])], ImportLine(t[2]))) =>
                  /\ dResult' = "ok"
                  /\ dfs'[InitPath(t[1])] = FreshlyRegistered(dfs[InitPath(t[1])], t[2]) ]_vars

\* a symbol registered in a hand-written index file that holds a tuple __all__
C19_Witness ==
    /\ dStart = "tuple"
    /\ dCalls = 1
    /\ dLast = [op |-> "updateInitFile", dir |-> "jobs", name |-> <<"a", "b">>,
                schedule |-> FALSE]
    /\ dResult = "ok"
    /\ dfs[InitPath("jobs")] = FreshlyRegistered(HandWrittenTuple, <<"a", "b">>)

(***************************************************************************)
(* Properties of AIEngine                                                  *)
(***************************************************************************)

\* C20: with provider anthropic or local the constructor succeeds, and every call
\* of generateDbtModel, generateDagsterAsset, explainCode, optimizeCode and
\* generateDocumentation rejects with the provider's own `not yet implemented`
\* error; none resolves.
C20_UnimplementedProvidersReject ==
    aProvider \in {"anthropic", "local"} =>
        /\ aEngine = "built"
        /\ aN > 0 =>
              /\ aOutcome.status = "rejected"
              /\ aOutcome.value = NoValue
              /\ aProvider = "anthropic" =>
                    aOutcome.error = "Anthropic provider not yet implemented"
              /\ aProvider = "local" => aOutcome.error = "Local provider not yet implemented"

C20_Witness ==
    /\ aProvider = "local"
    /\ aEngine = "built"
    /\ aN = 3
    /\ aLast.method = "generateDocumentation"
    /\ aOutcome.status = "rejected"
    /\ aOutcome.error = "Local provider not yet implemented"

(***************************************************************************)
(* Properties of the members of the __all__ list                           *)
(***************************************************************************)

\* the members of the __all__ list as they stand in the file, quotes kept
RawMembers(text) ==
    LET m == AllMatch(text) IN
    IF m.start = 0 THEN <<>>
    ELSE LET pieces == Split(SubSeq(text, m.open + 1, m.close - 1), ",")
         IN  [k \in 1..Len(pieces) |-> Trim(pieces[k])]

IsDoubleQuoted(member) ==
    /\ Len(member) >= 3
    /\ member[1] = "\""
    /\ member[Len(member)] = "\""
    /\ \A k \in 2..(Len(member) - 1) : member[k] \notin Quotes

\* C28: in an index file written by registrations alone (it started absent or
\* empty), every member of the __all__ list is a double-quoted string literal,
\* the earlier members as well as the one added last.
C28_AllMembersQuoted ==
    dStart \in {"nodirs", "absent", "empty"} =>
        \A d \in DagDirs :
            InitPath(d) \in DOMAIN dfs =>
                \A k \in 1..Len(RawMembers(dfs[InitPath(d)])) :
                    IsDoubleQuoted(RawMembers(dfs[InitPath(d)])[k])

(***************************************************************************)
(* Frame of a registration                                                 *)
(***************************************************************************)

\* the files a call may create or modify
AllowedPaths(call) ==
    IF call.op = "updateInitFile" THEN {InitPath(call.dir)}
    ELSE IF call.op = "generateAsset"
    THEN {PyFile("assets", call.name), InitPath("assets")}
         \cup (IF call.schedule
               THEN {PyFile("schedules", ScheduleSymbol(call.name)), InitPath("schedules")}
               ELSE {})
    ELSE {}

\* C24: updateInitFile writes at most the index file at its initPath; generateAsset
\* creates or modifies only the asset's file and the assets index, and with a
\* schedule also the schedule's file and the schedules index.  Every other file
\* (the jobs directory, the other assets) is as before, and the jobs directory is
\* neither created nor removed.
C24_RegistrationFrame ==
    [][ dLast'.op \in {"updateInitFile", "generateAsset"} =>
          /\ \A p \in (DOMAIN dfs) \cup (DOMAIN dfs') :
                p \notin AllowedPaths(dLast') =>
                    /\ p \in DOMAIN dfs
                    /\ p \in DOMAIN dfs'
                    /\ dfs'[p] = dfs[p]
          /\ \A k \in 1..Len(dWrites') : dWrites'[k] \in AllowedPaths(dLast')
          /\ ("jobs" \in ddirs') = ("jobs" \in ddirs)
          /\ (dLast'.op = "updateInitFile" => ddirs' = ddirs) ]_vars

\* a scheduled asset generated after a job and another asset
C24_Witness ==
    /\ dStart = "absent"
    /\ dCalls = 3
    /\ dResult = "ok"
    /\ dLast.op = "generateAsset"
    /\ dLast.schedule
    /\ dPrev.op = "generateJob"
    /\ PyFile("jobs", dPrev.name) \in DOMAIN dfs
    /\ \E n \in SymNames : n # dLast.name /\ PyFile("assets", n) \in DOMAIN dfs
    /\ dWrites = <<PyFile("assets", dLast.name), InitPath("assets"),
                   PyFile("schedules", ScheduleSymbol(dLast.name)), InitPath("schedules")>>

(***************************************************************************)
(* Properties of the reader's `- name:` lines                              *)
(***************************************************************************)

NamesOf(records) == [k \in 1..Len(records) |-> records[k].name]

\* C22: of a document the writer wrote, the reader makes one model record for each
\* `- name:` line at the model level, also after a model with a `columns:` block,
\* and one column record of a model for each `- name:` line inside that model's
\* columns block.
C22_NameLinesByLevel ==
    yStage >= 2 =>
        /\ NamesOf(yDoc2) = NamesOf(yDoc)
        /\ \A i \in 1..Len(yDoc) :
              i <= Len(yDoc2) => NamesOf(yDoc2[i].columns) = NamesOf(yDoc[i].columns)

(***************************************************************************)
(* Repetition of a generateModel call                                      *)
(***************************************************************************)

\* C29: a generateModel call with the options of the call before it leaves the
\* directory's schema.yml byte-identical, whatever models the earlier calls have
\* recorded in the file.
C29_RepeatedCallKeepsSchema ==
    [][ (mCalls >= 1 /\ mCalls' = mCalls + 1 /\ mLast' = mLast) =>
          LET d == getModelDirectory(mLast.name) IN
          /\ SchemaPath(d) \in DOMAIN mfs
          /\ SchemaPath(d) \in DOMAIN mfs'
          /\ mfs'[SchemaPath(d)] = mfs[SchemaPath(d)] ]_vars

(***************************************************************************)
(* The caller's SQL in the text addModelConfig returns                     *)
(***************************************************************************)

\* the tokens that open a template expression
OpenTokens == {ConfigOpen, "from {{ ref('t'"}

\* positions i..j of the text hold one config call
IsConfigCall(s, i, j) ==
    /\ i < j
    /\ s[i] = ConfigOpen
    /\ s[j] = ConfigClose
    /\ \A k \in (i + 1)..(j - 1) : s[k] \notin OpenTokens \cup BraceTokens

\* C23: the text addModelConfig returns is the caller's text itself, or the caller's
\* text with one config call replaced by the requested header, or the caller's
\* lines, all of them and in order, with the requested header line and one empty
\* line put in between.
C23_SqlPassedThrough ==
    cN >= 1 =>
        \/ cOut = cIn
        \/ \E i, j \in 1..Len(cIn) :
              /\ IsConfigCall(cIn, i, j)
              /\ cOut = SubSeq(cIn, 1, i - 1) \o RequestedHeader
                        \o SubSeq(cIn, j + 1, Len(cIn))
        \/ LET inL == Split(cIn, "\n") IN
           \E k \in 1..(Len(inL) + 1) :
              Split(cOut, "\n") = SubSeq(inL, 1, k - 1) \o <<RequestedHeader, <<>>>>
                                  \o SubSeq(inL, k, Len(inL))

(***************************************************************************)
(* Properties of generateDocs                                              *)
(***************************************************************************)

DocsGenerate == [tool |-> "dbt", args |-> <<"docs", "generate">>]

DocsServe == [tool |-> "dbt", args |-> <<"docs", "serve", "--port", "8001">>]

\* C25: generateDocs spawns `docs serve` only when `docs generate` has closed with
\* exit code 0; once the request of `docs generate` is rejected, `docs serve` is not
\* spawned and generateDocs does not resolve; generateDocs resolves only when
\* `docs serve` has closed with exit code 0.
C25_DocsInSequence ==
    [][ pOp'.op = "generateDocs" =>
          /\ (pCmd' = DocsServe /\ (pCmd # DocsServe \/ pSpawns' # pSpawns)) =>
                /\ pOp.op = "generateDocs"
                /\ pOpResult = "pending"
                /\ pCmd = DocsGenerate
                /\ pChild = "closed"
                /\ pBy = "close"
                /\ pCode = 0
                /\ pSpawns = 1
                /\ pSpawns' = 2
          /\ (pOp.op = "generateDocs" /\ pCmd = DocsGenerate /\ pPromise = "rejected"
              /\ pN' = pN) =>
                /\ pCmd' = DocsGenerate
                /\ pSpawns' = 1
                /\ pOpResult' \in {"pending", "rejected"}
          /\ pOpResult' = "resolved" =>
                /\ pCmd' = DocsServe
                /\ pSpawns' = 2
                /\ pChild' = "closed"
                /\ pBy' = "close"
                /\ pCode' = 0 ]_vars

\* generateDocs resolved after both commands closed with exit code 0
C25_Witness ==
    /\ pOp.op = "generateDocs"
    /\ pOpResult = "resolved"
    /\ pCmd = DocsServe
    /\ pSpawns = 2
    /\ pChild = "closed"
    /\ pCode = 0

(***************************************************************************)
(* Properties of the mock provider                                         *)
(***************************************************************************)

\* C26: with the openai provider, generateDagsterAsset resolves for every prompt, to
\* a pair whose code holds `from dagster import asset`.
C26_DagsterAssetForAnyPrompt ==
    (aProvider = "openai" /\ aLast.method = "generateDagsterAsset") =>
        /\ aOutcome.status = "resolved"
        /\ Includes(aOutcome.value.body, <<"from dagster import asset">>)

\* C27: with the openai provider, generateDocumentation(modelName, sql) resolves to
\* text that holds modelName and the word `documentation`.
C27_DocumentationNamesModel ==
    (aProvider = "openai" /\ aLast.method = "generateDocumentation") =>
        /\ aOutcome.status = "resolved"
        /\ Includes(aOutcome.value.body, aLast.input)
        /\ Includes(aOutcome.value.body, <<"documentation">>)

(***************************************************************************)
(* Properties of the command line                                          *)
(***************************************************************************)

\* the dbt:*, dagster:* and ai:generate:* commands
GuardedCommands ==
    {"dbt:model:new", "dbt:run", "dbt:test", "dbt:compile", "dbt:docs", "dbt:introspect",
     "dagster:asset:new", "dagster:job:new", "dagster:dbt:asset", "dagster:run:asset",
     "dagster:run:job", "dagster:dev", "dagster:validate",
     "ai:generate:dbt", "ai:generate:dagster"}

\* config files that are absent, unreadable or not JSON
BrokenConfigs == {"absent", "unreadable", "corrupt"}

\* C21: a dbt:*, dagster:* or ai:generate:* command run where .dataweave/config.json
\* is absent, unreadable or not JSON ends with an error and exit code 1, has called
\* no manager or engine operation, has written no file, made no directory and
\* spawned no process.
C21_NoConfigNoOperation ==
    [][ (lN' = lN + 1 /\ lConfig \in BrokenConfigs /\ lCmd'.name \in GuardedCommands) =>
          /\ lExit' = 1
          /\ lError' \in {NoProjectError, LoadFailedError}
          /\ lOps' = <<>>
          /\ lWrites' = <<>>
          /\ lSpawns' = 0
          /\ lfs' = lfs
          /\ ldirs' = ldirs ]_vars

\* a second run in a project whose config is not JSON: `ai:generate:dbt <prompt> -n stg_a`
C21_Witness ==
    /\ lConfig = "corrupt"
    /\ lN = 2
    /\ lCmd = [name |-> "ai:generate:dbt", arg |-> StgA]
    /\ lExit = 1
    /\ lError = LoadFailedError
    /\ lOps = <<>>
    /\ lfs = <<>>

\* C30: `ai:document <name>` run for a model that a run of `dbt:model:new <name>`
\* created in the same project does not end with `DBT model not found`.
C30_CreatedModelIsFound ==
    (lCmd.name = "ai:document" /\ lCmd.arg \in lCreated) => lError # ModelNotFoundError

====
